---- MODULE Spec2Model ----
(***************************************************************************)
(* A model of AppFlowy-Collab's outbound sync sink (CollabSink and its     *)
(* CollabSinkRunner, collab-plugins/src/cloud_storage/sink.rs), of the     *)
(* block-tree document (collab-document/src/document.rs), the row cache    *)
(* (collab-database/src/blocks/block.rs), the update log of the KV store   *)
(* (collab-persistence/src/kv/mod.rs), the cells of a row                  *)
(* (collab-database/src/rows/cell.rs), undo / redo of a session and the    *)
(* views and legacy migration of a folder                                  *)
(* (collab-folder/src/folder_migration.rs).                                *)
(***************************************************************************)
EXTENDS Integers, Sequences, FiniteSets, TLC

(* ------------------------------ bounds --------------------------------- *)
\* Number of messages queue_msg may mint (message ids 0 .. MaxMsgs-1).
MaxMsgs == 2
\* Largest merge size tried, counted in queued payloads, not bytes.
MaxMergeSize == 2
\* Messages minted under SpecFix, under SpecLive and under SpecAck.
MaxFixMsgs == 2
MaxLiveMsgs == 1
MaxAckMsgs == 2
\* Duration d of SinkStrategy::FixInterval(d), in clock ticks.
FixIntervalTicks == 2
\* Number of "notify again after 100ms" tasks tracked at once, fired or not
\* (saturating).
MaxRetryTasks == 1
\* Saturation of the per-message count of transport sends (0, 1, 2 = "many").
MaxSendCount == 2
\* Longest action list given to apply_action.
MaxActions == 2
\* Capacity of the row cache (the program uses 1000, block.rs line 49).
CacheCapacity == 2
\* Number of updates a row takes (its content is the count of updates applied).
MaxRowVersion == 1
\* Number of fetch tasks get_or_init_row may enqueue (values of Block.sequence).
MaxFetchCalls == 2
\* Updates pushed to one object besides its initial state.
MaxAppends == 2
\* Attempts of one write-transaction acquisition before it gives up.
MaxRetries == 2
\* Largest reading of the clock behind timestamp().
MaxTime == 2
\* Number of insert_cell calls.
MaxCellWrites == 3
\* Changes the undo stack holds at most.
MaxUndoDepth == 2
\* Entries of a children list of the folder from which on no view is added.
MaxChildren == 3
\* Characters a text of the document holds at most.
MaxTextLen == 2

(* ------------------------------ state ---------------------------------- *)
VARIABLES
  queue,        \* PendingMsgQueue: the set of PendingMessage records in the heap
  counter,      \* DefaultMsgIdCounter: the next message id
  lock,         \* pending_msg_queue mutex: "free", or held by a caller
                \* ("queueing" inside queue_msg, "client" inside another call)
  runnerPc,     \* position of the CollabSinkRunner task
  inflight,     \* collab_msg: the clone the runner is sending / awaiting, or NoMsg
  ackChan,      \* the oneshot (tx, rx) of the current attempt
  notifier,     \* watch channel: [val: the bool sent, changed: unseen by the runner]
  ownerDropped, \* the owner released its Arc<CollabSink>
  strategy,     \* SinkConfig.strategy: "Asap" or "FixInterval"
  notifying,    \* callers of queue_msg that released the queue and have not notified yet
  dtor,         \* the destructor of the sink: "none", "drop" (about to send true),
                \* "fields" (true sent, fields not released yet), "gone"
  tickHolds,    \* the IntervalRunner holds an upgraded notifier and has not sent yet
  retryHolds,   \* fired "notify again" tasks that hold an upgraded notifier
  mergeLimit,   \* the payload size up to which PendingMessage::merge absorbs
  maxMergeSize, \* SinkConfig.max_merge_size
  sinceSend,    \* time since a message was last put on the transport (since the
                \* construction before the first), saturated at FixIntervalTicks
  elapsed,      \* self.instant.elapsed(), saturated at FixIntervalTicks
  phase,        \* IntervalRunner: ticks since its last notify, NotPolled before its first
  retryTasks,   \* spawned "notify again after 100ms" tasks not fired yet
  transportOpen,\* the transport accepts sends
  sends,        \* per message id: how often it was put on the transport
  sinkState,    \* last value published on state_notifier
  sendFailed,   \* a transport send returned an error
  ackedInTime,  \* ids acked (ack_msg, same id) during their first, pending wait
  doc,          \* the document: [blocks: id -> parent or NoBlock, children: id -> Seq]
  docBefore,    \* the document before the last apply_action
  lastActions,  \* the action list given to the last apply_action
  lastError,    \* index of the action that failed in the last apply_action, 0 if none
  cache,        \* Block.cache: the row ids of the LruCache, most recently used first
  rows,         \* per row id: the row document in the KV store (NoRow: no document)
  tasks,        \* BlockTaskController: the queued fetch tasks, in the order of add_task
  sequence,     \* Block.sequence
  waiting,      \* per row id: get_or_init_row calls that enqueued a fetch not completed yet
  bpc,          \* per caller thread: position inside its call on the Block
  barg,         \* per caller thread: the row id of the call in progress
  bseq,         \* per caller thread: the seq it took from Block.sequence, NoSeq if none
  lastRead,     \* the value the last read helper returned
  used,         \* the cached row ids by the time of their last use, latest first
  creating,     \* the row a create_row in progress has written and not cached yet
  kv,           \* the ordered key-value store: a set of [key, value] entries
  dbLock,       \* the write lock around the store: its holder, or NoHolder
  spc,          \* per worker thread: position inside its append
  sobj,         \* per worker thread: the object of the call in progress
  sclock,       \* per worker thread: the clock it computed for its record
  applied,      \* per object: the updates given to the store, in the order of their insert
  loaded,       \* the last load_doc: [obj, state]
  writers,      \* the threads that hold a write transaction on the document
  tpc,          \* per thread: position inside its write-transaction acquisition
  attempts,     \* per thread: failed attempts of the acquisition in progress
  cells,        \* per field id: the cell map of one row (EmptyMap: no cell yet)
  now,          \* the reading of the clock behind timestamp()
  writes,       \* number of insert_cell calls so far (fill_map_ref is not counted)
  lastField,    \* the field id of the last insert_cell, NoField before the first
  cmap,         \* the content of a Collab session: key -> value, NoValue without one
  undoOn,       \* the session has an undo manager (enable_undo_redo was called)
  undoStack,    \* the undo stack: the changes made since enabling, oldest first
  redoStack,    \* the redo stack: the changes undone, oldest first
  atEnable,     \* the content when the undo manager was enabled
  guardHeld,    \* another thread holds the MutexCollab of the session
  lastCall,     \* the last call on the session and what it returned
  upc,          \* position inside Document::undo / redo: "idle", or "undo" / "redo"
                \* after can_undo / can_redo returned true
  folder,       \* the views of a Folder: [parent, children, relations]
  workspaces,   \* the legacy `workspaces` array: [present, items]
  favoritesV1,  \* the legacy FAVORITES_V1 array
  fop,          \* the last call on the folder and what it returned
  migrating,    \* the workspace a migrate_workspace_to_view in progress has read
  snapshot,     \* per object: its snapshot record [clock, state], NoSnapshot without one
  bcall         \* the last delete_row call: [row, existed: it had a live document, n: parity]

sinkVars == <<queue, counter, lock, runnerPc, inflight, ackChan, notifier,
              ownerDropped, strategy, maxMergeSize, sinceSend, notifying, dtor, tickHolds, retryHolds, mergeLimit, elapsed, phase, retryTasks, transportOpen,
              sends, sinkState, sendFailed, ackedInTime>>
docVars == <<doc, docBefore, lastActions, lastError>>
blockVars == <<cache, rows, tasks, sequence, waiting, bpc, barg, bseq, lastRead, used,
               creating>>
storeVars == <<kv, dbLock, spc, sobj, sclock, applied, loaded>>
txnVars == <<writers, tpc, attempts>>
cellVars == <<cells, now, writes, lastField>>
undoVars == <<cmap, undoOn, undoStack, redoStack, atEnable, guardHeld, lastCall, upc>>
folderVars == <<folder, workspaces, favoritesV1, fop, migrating>>
snapVars == <<snapshot>>
callVars == <<bcall>>
otherThanSink == <<docVars, blockVars, storeVars, txnVars, cellVars, undoVars, folderVars, snapVars, callVars>>
otherThanDoc == <<sinkVars, blockVars, storeVars, txnVars, cellVars, undoVars, folderVars, snapVars, callVars>>
otherThanBlock == <<sinkVars, docVars, storeVars, txnVars, cellVars, undoVars, folderVars, snapVars, callVars>>
otherThanStore == <<sinkVars, docVars, blockVars, txnVars, cellVars, undoVars, folderVars, snapVars, callVars>>
otherThanTxn == <<sinkVars, docVars, blockVars, storeVars, cellVars, undoVars, folderVars, snapVars, callVars>>
otherThanCell == <<sinkVars, docVars, blockVars, storeVars, txnVars, undoVars, folderVars, snapVars, callVars>>
otherThanUndo == <<sinkVars, docVars, blockVars, storeVars, txnVars, cellVars, folderVars, snapVars, callVars>>
otherThanFolder == <<sinkVars, docVars, blockVars, storeVars, txnVars, cellVars, undoVars, snapVars, callVars>>
otherThanBlockAndCall == <<sinkVars, docVars, storeVars, txnVars, cellVars, undoVars, folderVars, snapVars>>
otherThanStoreAndSnap == <<sinkVars, docVars, blockVars, txnVars, cellVars, undoVars, folderVars, callVars>>
vars == <<sinkVars, docVars, blockVars, storeVars, txnVars, cellVars, undoVars, folderVars, snapVars, callVars>>

(* ------------------- messages (cloud_storage::msg) --------------------- *)
MsgIds == 0 .. (MaxMsgs - 1)
Kinds == {"init", "update", "urgent"}
\* The kinds queued where the queue grows longest: a mergeable one and one of
\* lower priority that is not; and the kinds queued under FixInterval: a
\* deferrable one and one that is not.
AckKinds == {"init", "update"}
FixKinds == {"update", "urgent"}
NoMsg == [id |-> -1]

\* Ord of the message type: init < normal < urgent.
Priority(kind) == CASE kind = "init" -> 0 [] kind = "update" -> 1 [] OTHER -> 2
\* CollabSinkMessage::mergeable
Mergeable(kind) == kind = "update"
\* CollabSinkMessage::deferrable: init and urgent messages are not deferrable
Deferrable(kind) == kind = "update"
\* CollabSinkMessage::is_init_msg
IsInit(kind) == kind = "init"

\* PendingMessage::new: state Pending, no ack channel attached.
NewPendingMessage(id, kind) ==
  [id |-> id, kind |-> kind, state |-> "Pending", ids |-> {id}, tx |-> FALSE]

\* Ord of PendingMessage: by message priority, FIFO (smaller id first) as tiebreak.
Before(m, n) ==
  \/ Priority(m.kind) > Priority(n.kind)
  \/ Priority(m.kind) = Priority(n.kind) /\ m.id < n.id

\* BinaryHeap::peek / the element BinaryHeap::pop returns.
Peek(q) == CHOOSE m \in q : \A n \in q \ {m} : Before(m, n)

\* PendingMessage::merge(other), called at line 231 with the popped message and
\* nothing else: it absorbs the other payload unless the other message is not
\* mergeable or the merged payload would exceed the size the message type
\* merges up to. SinkConfig.max_merge_size is not among its inputs: the sink
\* reads that field nowhere (lines 85, 118, 231, 333, 355-356).
MergeOk(self, other) ==
  Mergeable(other.kind) /\ Cardinality(self.ids \cup other.ids) <= mergeLimit
MergeInto(self, other) == [self EXCEPT !.ids = self.ids \cup other.ids]

Ids(q) == {m.id : m \in q}
Covered(q) == UNION {m.ids : m \in q}
Inc(n) == IF n < MaxSendCount THEN n + 1 ELSE n


\* PendingMessage::set_state: Done completes the attached ack channel (tx.take()).
SetState(m, s) == [m EXCEPT !.state = s, !.tx = IF s = "Done" THEN FALSE ELSE m.tx]

\* Dropping the receiver half: every sender still attached becomes useless.
ClearTx(q) == {[m EXCEPT !.tx = FALSE] : m \in q}

\* The merge loop of try_send_msg_immediately: pops the next head and merges it
\* into the message being sent; the popped message is moved into merge, so the
\* one on which merge returns false is not pushed back.
RECURSIVE MergeLoop(_, _)
MergeLoop(sending, q) ==
  IF q = {} THEN [msg |-> sending, rest |-> q]
  ELSE LET pending == Peek(q) IN
       IF MergeOk(sending, pending)
       THEN MergeLoop(MergeInto(sending, pending), q \ {pending})
       ELSE [msg |-> sending, rest |-> q \ {pending}]

(* ------------------------ sink lifetime and notifier ------------------- *)
\* Positions at which the runner holds the Arc it upgraded from weak_sink.
Holding == {"process", "trysend", "send", "await", "timeout"}

\* A sink that is never destroyed: some strong reference outlives the owner.
SinkKeptAlive(owner, pc) == FALSE

\* The last Arc<CollabSink> is released: the owner let go of it and the runner
\* holds no upgraded reference. weak_sink no longer upgrades and the destructor
\* runs on the thread that released it.
SinkDestroyed(owner, pc) == owner /\ pc \notin Holding

\* Weak<watch::Sender>::upgrade succeeds: the sink has not released its fields
\* yet, or a notifier task holds an Arc it upgraded. Without either the sender
\* is destroyed and the channel closed.
NotifierAlive == dtor # "gone" \/ tickHolds \/ retryHolds > 0

\* CollabSink::notify
Notify == [val |-> FALSE, changed |-> TRUE]
\* impl Drop for CollabSink
DropNotify == [val |-> TRUE, changed |-> TRUE]

\* The notifier when a tick ends.
NotifierAfterTick(notified) == IF notified THEN Notify ELSE notifier

\* The tick ends (line 320): the runner lets go of the sink; if the owner has
\* released it meanwhile this was the last reference and the runner's thread
\* runs the destructor before it returns to the loop.
EndTick(notified) ==
  /\ runnerPc' = IF SinkDestroyed(ownerDropped, "wait") THEN "dropping" ELSE "wait"
  /\ dtor' = IF SinkDestroyed(ownerDropped, "wait") THEN "drop" ELSE dtor
  /\ inflight' = NoMsg
  /\ notifier' = NotifierAfterTick(notified)

(* --------------------------- callers of the sink ----------------------- *)
\* A caller's critical section on pending_msg_queue is entered and executed in
\* one step and left in a later one (Unlock): while it lasts the try_lock calls
\* of the runner fail and its lock call waits.

\* The threads that call queue_msg.
QueueCallers == {"c1"}

\* CollabSink::queue_msg, lines 116-120: mint the id and push under the lock.
QueueMsgUpTo(kind, bound) ==
  /\ lock = "free"
  /\ ~ownerDropped
  /\ counter < bound
  /\ notifying < Cardinality(QueueCallers)
  /\ queue' = queue \cup {NewPendingMessage(counter, kind)}
  /\ counter' = counter + 1
  /\ lock' = "queueing"
  /\ UNCHANGED <<runnerPc, inflight, ackChan, notifier, ownerDropped, strategy, maxMergeSize, sinceSend, notifying, dtor, tickHolds, retryHolds, mergeLimit, elapsed,
                 phase, retryTasks, transportOpen, sends, sinkState, sendFailed,
                 ackedInTime>>
  /\ UNCHANGED otherThanSink

QueueMsg(kind) == QueueMsgUpTo(kind, MaxMsgs)

\* CollabSink::remove_all_pending_msgs: the cleared messages are dropped, and
\* with them the sender half of an ack channel one of them carries.
RemoveAllPendingMsgs ==
  /\ lock = "free"
  /\ ~ownerDropped
  /\ queue' = {}
  /\ ackChan' = IF ackChan = "open" /\ (\E m \in queue : m.tx) THEN "closed" ELSE ackChan
  /\ lock' = "client"
  /\ UNCHANGED <<counter, runnerPc, inflight, notifier, ownerDropped, strategy, maxMergeSize, sinceSend, notifying, dtor, tickHolds, retryHolds, mergeLimit, elapsed,
                 phase, retryTasks, transportOpen, sends, sinkState, sendFailed,
                 ackedInTime>>
  /\ UNCHANGED otherThanSink

\* A comparison that takes the asserted bound (line 138) for the match.
AckMatchesAtLeast(head, msgId) == head.id >= msgId

\* The head comparison of ack_msg (line 145).
AckMatches(head, msgId) == head.id = msgId

\* CollabSink::ack_msg, for the id of a message that was put on the transport.
AckMsg(msgId) ==
  /\ lock = "free"
  /\ ~ownerDropped
  /\ sends[msgId] > 0
  /\ ackedInTime' =
       IF runnerPc = "await" /\ ackChan = "open" /\ inflight.id = msgId
          /\ sends[msgId] = 1
       THEN ackedInTime \cup {msgId} ELSE ackedInTime
  /\ IF queue = {}
     THEN UNCHANGED <<queue, ackChan, notifier>>
     ELSE LET head == Peek(queue) IN
          IF AckMatches(head, msgId)
          THEN /\ queue' = (queue \ {head}) \cup {SetState(head, "Done")}
               /\ ackChan' = IF head.tx /\ ackChan = "open" THEN "fired" ELSE ackChan
               /\ notifier' = Notify
          ELSE UNCHANGED <<queue, ackChan, notifier>>
  /\ lock' = "client"
  /\ UNCHANGED <<counter, runnerPc, inflight, ownerDropped, strategy, maxMergeSize, sinceSend, notifying, dtor, tickHolds, retryHolds, mergeLimit, elapsed, phase,
                 retryTasks, transportOpen, sends, sinkState, sendFailed>>
  /\ UNCHANGED otherThanSink

\* The ack of a message that was sent and is not Done yet.
Unacked(msgId) == \E m \in queue : m.id = msgId /\ m.state \in {"Processing", "Timeout"}
AckSent(msgId) == Unacked(msgId) /\ AckMsg(msgId)

\* The caller's guard is released (line 121 in queue_msg, the end of the
\* statement or of the function in the other calls); queue_msg has its notify
\* still to do.
Unlock ==
  /\ lock # "free"
  /\ lock' = "free"
  /\ notifying' = IF lock = "queueing" THEN notifying + 1 ELSE notifying
  /\ UNCHANGED <<queue, counter, runnerPc, inflight, ackChan, notifier, ownerDropped, strategy, maxMergeSize, sinceSend, mergeLimit,
                 dtor, tickHolds, retryHolds,
                 elapsed, phase, retryTasks, transportOpen, sends, sinkState, sendFailed,
                 ackedInTime>>
  /\ UNCHANGED otherThanSink

\* CollabSink::queue_msg, line 124: self.notify() after the guard is gone.
QueueNotify ==
  /\ notifying > 0
  /\ notifying' = notifying - 1
  /\ notifier' = Notify
  /\ UNCHANGED <<queue, counter, lock, runnerPc, inflight, ackChan, ownerDropped, strategy, maxMergeSize, sinceSend,
                 dtor, tickHolds, retryHolds, mergeLimit, elapsed, phase, retryTasks, transportOpen, sends, sinkState,
                 sendFailed, ackedInTime>>
  /\ UNCHANGED otherThanSink

\* The owner releases its Arc<CollabSink>, with no call on the sink in
\* progress. The destructor starts on the owner's thread unless the runner
\* holds an upgraded reference, in which case it starts when the tick ends.
DropSink ==
  /\ ~ownerDropped
  /\ lock = "free"
  /\ notifying = 0
  /\ ownerDropped' = TRUE
  /\ dtor' = IF SinkDestroyed(TRUE, runnerPc) THEN "drop" ELSE dtor
  /\ UNCHANGED <<queue, counter, lock, runnerPc, inflight, ackChan, notifier, strategy, maxMergeSize, sinceSend, notifying,
                 tickHolds, retryHolds, mergeLimit,
                 elapsed, phase, retryTasks, transportOpen, sends, sinkState, sendFailed, ackedInTime>>
  /\ UNCHANGED otherThanSink

\* impl Drop for CollabSink, lines 59-63: the stop value is sent; the fields,
\* the notifier among them, are still in place.
SinkDrop ==
  /\ dtor = "drop"
  /\ dtor' = "fields"
  /\ notifier' = DropNotify
  /\ UNCHANGED <<queue, counter, lock, runnerPc, inflight, ackChan, ownerDropped, strategy, maxMergeSize, sinceSend, notifying,
                 tickHolds, retryHolds, mergeLimit,
                 elapsed, phase, retryTasks, transportOpen, sends, sinkState, sendFailed, ackedInTime>>
  /\ UNCHANGED otherThanSink

\* The fields of the sink are released after Drop::drop returned (lines 31-58,
\* in the order of their declaration): the sink's Arc of the notifier is gone.
\* A runner whose thread ran the destructor goes back to its loop.
ReleaseFields ==
  /\ dtor = "fields"
  /\ dtor' = "gone"
  /\ runnerPc' = IF runnerPc = "dropping" THEN "wait" ELSE runnerPc
  /\ UNCHANGED <<queue, counter, lock, inflight, ackChan, notifier, ownerDropped, strategy, maxMergeSize, sinceSend, notifying,
                 tickHolds, retryHolds, mergeLimit,
                 elapsed, phase, retryTasks, transportOpen, sends, sinkState, sendFailed, ackedInTime>>
  /\ UNCHANGED otherThanSink

(* ------------------------------ the runner ----------------------------- *)
\* CollabSinkRunner::run, lines 305-307: the initial notify.
RunnerStart ==
  /\ runnerPc = "start"
  /\ runnerPc' = "wait"
  /\ notifier' = IF SinkDestroyed(ownerDropped, runnerPc) THEN notifier ELSE Notify
  /\ UNCHANGED <<queue, counter, lock, inflight, ackChan, ownerDropped,
                 strategy, maxMergeSize, sinceSend, notifying, dtor, tickHolds, retryHolds, mergeLimit, elapsed, phase, retryTasks, transportOpen, sends,
                 sinkState, sendFailed, ackedInTime>>
  /\ UNCHANGED otherThanSink

\* notifier.changed().await (line 310): a new value is marked seen; with no new
\* value and the sender destroyed (no Arc of it left) it is an error and the
\* loop breaks.
RunnerWait ==
  /\ runnerPc = "wait"
  /\ IF notifier.changed
     THEN /\ notifier' = [notifier EXCEPT !.changed = FALSE]
          /\ runnerPc' = "check"
     ELSE /\ ~NotifierAlive
          /\ runnerPc' = "stopped"
          /\ UNCHANGED notifier
  /\ UNCHANGED <<queue, counter, lock, inflight, ackChan, ownerDropped,
                 strategy, maxMergeSize, sinceSend, notifying, dtor, tickHolds, retryHolds, mergeLimit, elapsed, phase, retryTasks, transportOpen, sends,
                 sinkState, sendFailed, ackedInTime>>
  /\ UNCHANGED otherThanSink

\* Lines 315-323: break on the stop value, else upgrade weak_sink or break.
RunnerCheck ==
  /\ runnerPc = "check"
  /\ runnerPc' = IF notifier.val THEN "stopped"
                 ELSE IF SinkDestroyed(ownerDropped, runnerPc) THEN "stopped"
                 ELSE "process"
  /\ UNCHANGED <<queue, counter, lock, inflight, ackChan, notifier,
                 ownerDropped, strategy, maxMergeSize, sinceSend, notifying, dtor, tickHolds, retryHolds, mergeLimit, elapsed, phase, retryTasks, transportOpen,
                 sends, sinkState, sendFailed, ackedInTime>>
  /\ UNCHANGED otherThanSink

\* The deferrable probe of process_next_msg (lines 156-165): try_lock and peek,
\* true when the lock is taken or the queue is empty.
HeadDeferrable ==
  IF lock = "free" /\ queue # {} THEN Deferrable(Peek(queue).kind) ELSE TRUE

\* CollabSink::process_next_msg up to its call of try_send_msg_immediately.
ProcessNextMsg ==
  /\ runnerPc = "process"
  /\ IF ~HeadDeferrable
     THEN /\ runnerPc' = "trysend"
          /\ UNCHANGED <<elapsed, inflight, notifier, dtor>>
     ELSE IF strategy = "FixInterval" /\ elapsed < FixIntervalTicks
     THEN /\ EndTick(FALSE)
          /\ UNCHANGED elapsed
     ELSE /\ runnerPc' = "trysend"
          /\ elapsed' = 0
          /\ UNCHANGED <<inflight, notifier, dtor>>
  /\ UNCHANGED <<queue, counter, lock, ackChan, ownerDropped, strategy, maxMergeSize, sinceSend, notifying, tickHolds, retryHolds, mergeLimit, phase,
                 retryTasks, transportOpen, sends, sinkState,
                 sendFailed, ackedInTime>>
  /\ UNCHANGED otherThanSink

\* try_send_msg_immediately, lines 196-245: the part under the queue lock.
TrySendMsgImmediately ==
  /\ runnerPc = "trysend"
  /\ IF lock # "free"
     THEN \* try_lock failed: notify again after 100ms
          /\ retryTasks' = IF retryTasks + retryHolds < MaxRetryTasks
                           THEN retryTasks + 1 ELSE retryTasks
          /\ EndTick(FALSE)
          /\ UNCHANGED <<queue, ackChan, sinkState>>
     ELSE IF queue = {}
     THEN /\ EndTick(FALSE)
          /\ UNCHANGED <<queue, ackChan, sinkState, retryTasks>>
     ELSE LET sending == Peek(queue)
              popped == queue \ {sending} IN
          IF sending.state = "Done"
          THEN /\ queue' = popped
               /\ EndTick(TRUE)
               /\ UNCHANGED <<ackChan, sinkState, retryTasks>>
          ELSE IF sending.state = "Processing"
          THEN /\ queue' = popped
               /\ EndTick(FALSE)
               /\ UNCHANGED <<ackChan, sinkState, retryTasks>>
          ELSE LET merged == IF Mergeable(sending.kind) THEN MergeLoop(sending, popped)
                             ELSE [msg |-> sending, rest |-> popped]
                   out == [merged.msg EXCEPT !.state = "Processing", !.tx = TRUE] IN
               /\ queue' = merged.rest \cup {out}
               /\ ackChan' = "open"
               /\ sinkState' = IF ~IsInit(out.kind) THEN "Syncing" ELSE sinkState
               /\ inflight' = [id |-> out.id, kind |-> out.kind, ids |-> out.ids]
               /\ runnerPc' = "send"
               /\ UNCHANGED <<notifier, retryTasks, dtor>>
  /\ UNCHANGED <<counter, lock, ownerDropped, strategy, maxMergeSize, sinceSend, notifying, tickHolds, retryHolds, mergeLimit, elapsed, phase,
                 transportOpen, sends, sendFailed, ackedInTime>>
  /\ UNCHANGED otherThanSink

\* Lines 247-249: sender.send(collab_msg).await.ok()?
TransportSend ==
  /\ runnerPc = "send"
  /\ IF transportOpen
     THEN /\ sends' = [sends EXCEPT ![inflight.id] = Inc(@)]
          /\ sinceSend' = 0
          /\ runnerPc' = "await"
          /\ UNCHANGED <<queue, ackChan, inflight, notifier, sendFailed, dtor>>
     ELSE /\ sendFailed' = TRUE
          /\ ackChan' = "none"
          /\ queue' = ClearTx(queue)
          /\ EndTick(FALSE)
          /\ UNCHANGED <<sends, sinceSend>>
  /\ UNCHANGED <<counter, lock, ownerDropped, strategy, maxMergeSize, notifying, tickHolds, retryHolds, mergeLimit, elapsed, phase,
                 retryTasks, transportOpen, sinkState, ackedInTime>>
  /\ UNCHANGED otherThanSink

\* A completion that publishes Finished whatever is left in the queue.
StateAfterPopAlways(rest, state) == "Finished"

\* Lines 263-267: Finished is sent on state_notifier if the queue is empty
\* after the pop, under the guard that popped.
StateAfterPop(rest, state) == IF rest = {} THEN "Finished" ELSE state

\* Lines 252-270: the wait on rx ended before the timeout (the ack was sent on
\* the channel, or its sender was dropped with its message).
AckReceived ==
  /\ runnerPc = "await"
  /\ ackChan \in {"fired", "closed"}
  /\ IF lock = "free"
     THEN LET rest == IF queue = {} THEN {} ELSE queue \ {Peek(queue)} IN
          /\ queue' = rest
          /\ sinkState' = StateAfterPop(rest, sinkState)
     ELSE UNCHANGED <<queue, sinkState>>
  /\ ackChan' = "none"
  /\ EndTick(TRUE)
  /\ UNCHANGED <<counter, lock, ownerDropped, strategy, maxMergeSize, sinceSend, notifying, tickHolds, retryHolds, mergeLimit, elapsed, phase,
                 retryTasks, transportOpen, sends, sendFailed,
                 ackedInTime>>
  /\ UNCHANGED otherThanSink

\* Line 252: tokio::time::timeout expired before the ack.
AckTimeout ==
  /\ runnerPc = "await"
  /\ ackChan = "open"
  /\ runnerPc' = "timeout"
  /\ ackChan' = "none"
  /\ queue' = ClearTx(queue)
  /\ UNCHANGED <<counter, lock, inflight, notifier, ownerDropped, strategy, maxMergeSize, sinceSend, notifying, dtor, tickHolds, retryHolds, mergeLimit,
                 elapsed, phase, retryTasks, transportOpen, sends, sinkState, sendFailed, ackedInTime>>
  /\ UNCHANGED otherThanSink

\* Lines 271-276: lock the queue, mark the head Timeout, notify.
MarkTimeout ==
  /\ runnerPc = "timeout"
  /\ lock = "free"
  /\ queue' = IF queue = {} THEN queue
              ELSE LET head == Peek(queue) IN
                   (queue \ {head}) \cup {SetState(head, "Timeout")}
  /\ EndTick(TRUE)
  /\ UNCHANGED <<counter, lock, ackChan, ownerDropped, strategy, maxMergeSize, sinceSend, notifying, tickHolds, retryHolds, mergeLimit, elapsed,
                 phase, retryTasks, transportOpen, sends, sinkState, sendFailed, ackedInTime>>
  /\ UNCHANGED otherThanSink

(* ------------------------------ environment ---------------------------- *)
\* The task spawned at lines 202-207 fires (line 204): weak_notifier.upgrade(),
\* which fails once the sender is destroyed.
RetryNotify ==
  /\ retryTasks > 0
  /\ retryTasks' = retryTasks - 1
  /\ retryHolds' = IF NotifierAlive THEN retryHolds + 1 ELSE retryHolds
  /\ UNCHANGED <<queue, counter, lock, runnerPc, inflight, ackChan, notifier,
                 ownerDropped, strategy, maxMergeSize, sinceSend, notifying, dtor, tickHolds, mergeLimit, elapsed, phase,
                 transportOpen, sends, sinkState, sendFailed, ackedInTime>>
  /\ UNCHANGED otherThanSink

\* Line 205: notifier.send(false) on the upgraded sender, which is let go.
RetrySend ==
  /\ retryHolds > 0
  /\ retryHolds' = retryHolds - 1
  /\ notifier' = Notify
  /\ UNCHANGED <<queue, counter, lock, runnerPc, inflight, ackChan,
                 ownerDropped, strategy, maxMergeSize, sinceSend, notifying, dtor, tickHolds, mergeLimit, elapsed, phase,
                 retryTasks, transportOpen, sends, sinkState, sendFailed, ackedInTime>>
  /\ UNCHANGED otherThanSink

\* IntervalRunner::run is polled for the first time, before a unit of time has
\* passed: the first tick of a tokio interval completes at once, and the
\* runner upgrades its weak notifier (line 437).
NotPolled == -1
IntervalStart ==
  /\ strategy = "FixInterval"
  /\ phase = NotPolled
  /\ phase' = 0
  /\ tickHolds' = NotifierAlive
  /\ UNCHANGED <<queue, counter, lock, runnerPc, inflight, ackChan, notifier,
                 ownerDropped, strategy, maxMergeSize, sinceSend, notifying, dtor, retryHolds, mergeLimit, elapsed,
                 retryTasks, transportOpen, sends, sinkState, sendFailed, ackedInTime>>
  /\ UNCHANGED otherThanSink

\* One unit of time passes under FixInterval; every FixIntervalTicks units
\* after its first tick IntervalRunner::run is woken and upgrades its weak
\* notifier (line 437). It has sent on the sender of the tick before by then.
Tick ==
  /\ strategy = "FixInterval"
  /\ phase # NotPolled
  /\ elapsed' = IF elapsed < FixIntervalTicks THEN elapsed + 1 ELSE elapsed
  /\ sinceSend' = IF sinceSend < FixIntervalTicks THEN sinceSend + 1 ELSE sinceSend
  /\ phase' = (phase + 1) % FixIntervalTicks
  /\ phase' = 0 => ~tickHolds
  /\ tickHolds' = IF phase' = 0 THEN NotifierAlive ELSE tickHolds
  /\ UNCHANGED <<queue, counter, lock, runnerPc, inflight, ackChan, notifier,
                 ownerDropped, strategy, maxMergeSize, notifying, dtor, retryHolds, mergeLimit,
                 retryTasks, transportOpen, sends, sinkState, sendFailed, ackedInTime>>
  /\ UNCHANGED otherThanSink

\* Line 438: sender.send(false) on the upgraded sender, which is let go.
IntervalSend ==
  /\ tickHolds
  /\ tickHolds' = FALSE
  /\ notifier' = Notify
  /\ UNCHANGED <<queue, counter, lock, runnerPc, inflight, ackChan,
                 ownerDropped, strategy, maxMergeSize, sinceSend, notifying, dtor, retryHolds, mergeLimit, elapsed, phase,
                 retryTasks, transportOpen, sends, sinkState, sendFailed, ackedInTime>>
  /\ UNCHANGED otherThanSink

\* The transport is closed by the remote or the network.
TransportClose ==
  /\ transportOpen
  /\ transportOpen' = FALSE
  /\ UNCHANGED <<queue, counter, lock, runnerPc, inflight, ackChan, notifier,
                 ownerDropped, strategy, maxMergeSize, sinceSend, notifying, dtor, tickHolds, retryHolds, mergeLimit, elapsed, phase, retryTasks, sends,
                 sinkState, sendFailed, ackedInTime>>
  /\ UNCHANGED otherThanSink

(* ------------------------------ document ------------------------------- *)
\* The block tree and the text map of a Document. Block data is left out: an
\* Update is represented by whether it succeeds.
BlockIds == {"b1", "b2"}
PageId == "page"
AllIds == BlockIds \cup {PageId}
NoBlock == "none"   \* get_block_with_txn returns None
NoParent == ""      \* Block.parent is the empty string
None == "None"      \* Option::None in an action payload

\* The texts of the text map, by external id: the characters of a text, each
\* with its attribute, or NoText without a text under the id.
TextIds == {"t1"}
NoText == [exists |-> FALSE, chars |-> <<>>]
EmptyText == [exists |-> TRUE, chars |-> <<>>]
\* One element of a delta (TextDelta::Inserted): the text inserted at the cursor
\* and its attribute, as in [{"insert": "Hello", "attributes": {"bold": true}}].
InsertedText(text, bold) == [text |-> text, bold |-> bold]
\* A delta string: None of an Option<String>, a string that is no JSON delta,
\* and the JSON of a delta.
NoDelta == [some |-> FALSE, json |-> FALSE, ops |-> <<>>]
BadDelta == [some |-> TRUE, json |-> FALSE, ops |-> <<>>]
DeltaString(ops) == [some |-> TRUE, json |-> TRUE, ops |-> ops]
\* deserialize_text_delta / serde_json::from_str on a delta string.
DeserializeTextDelta(str) ==
  IF str.json THEN [ok |-> TRUE, delta |-> str.ops] ELSE [ok |-> FALSE, delta |-> <<>>]
\* The delta of a text: one Inserted per run of characters of one attribute.
RECURSIVE DeltaOf(_)
DeltaOf(chars) ==
  IF chars = <<>> THEN <<>>
  ELSE LET c == Head(chars)
           rest == DeltaOf(Tail(chars)) IN
       IF rest # <<>> /\ Head(rest).bold = c.bold
       THEN <<InsertedText(<<c.ch>> \o Head(rest).text, c.bold)>> \o Tail(rest)
       ELSE <<InsertedText(<<c.ch>>, c.bold)>> \o rest
\* A delta applied to the characters of a text from the cursor on: an Inserted
\* puts its text at the cursor and moves the cursor behind it.
RECURSIVE ApplyDeltaAt(_, _, _)
ApplyDeltaAt(chars, delta, cursor) ==
  IF delta = <<>> THEN chars
  ELSE LET op == Head(delta)
           new == [k \in 1 .. Len(op.text) |-> [ch |-> op.text[k], bold |-> op.bold]] IN
       ApplyDeltaAt(SubSeq(chars, 1, cursor) \o new \o SubSeq(chars, cursor + 1, Len(chars)),
                    Tail(delta), cursor + Len(op.text))

\* doc.parent[id]: the parent field of block id, NoBlock when the block is not in
\* the block map; doc.children[id]: the children list of block id;
\* doc.text[id]: the text under the external id; doc.ext[id]: the external_id
\* of block id, None for a block without one.
MakeDoc(parent, children, text, ext) ==
  [parent |-> parent, children |-> children, text |-> text, ext |-> ext]
Ok(d) == [ok |-> TRUE, doc |-> d, crash |-> FALSE]
Err(d) == [ok |-> FALSE, doc |-> d, crash |-> FALSE]
Crash(d) == [ok |-> FALSE, doc |-> d, crash |-> TRUE]

\* Document::create_document with a DocumentData holding the page block only.
DocInit ==
  MakeDoc([id \in AllIds |-> IF id = PageId THEN NoParent ELSE NoBlock],
          [id \in AllIds |-> <<>>], [id \in TextIds |-> NoText], [id \in AllIds |-> None])

Exists(d, id) == id \in AllIds /\ d.parent[id] # NoBlock

\* ChildrenOperation::get_child_index_with_txn: position of the child, 0 if none.
ChildIndex(list, id) ==
  IF \E i \in 1 .. Len(list) : list[i] = id
  THEN CHOOSE i \in 1 .. Len(list) : list[i] = id /\ \A j \in 1 .. (i - 1) : list[j] # id
  ELSE 0
\* ChildrenOperation::insert_child_with_txn at a 0-based index.
InsertChild(list, id, index) ==
  SubSeq(list, 1, index) \o <<id>> \o SubSeq(list, index + 1, Len(list))
\* ChildrenOperation::delete_child_with_txn
DeleteChild(list, id) ==
  LET i == ChildIndex(list, id) IN
  IF i = 0 THEN list ELSE SubSeq(list, 1, i - 1) \o SubSeq(list, i + 1, Len(list))

\* BlockOperation::create_block_with_txn: a new block map entry with its
\* children list; an id that is taken is an error.
CreateBlock(d, id, parent, ext) ==
  IF Exists(d, id) THEN Err(d)
  ELSE Ok(MakeDoc([d.parent EXCEPT ![id] = parent], [d.children EXCEPT ![id] = <<>>],
                  d.text, [d.ext EXCEPT ![id] = ext]))

\* The index computed from prev_id (lines 228-235 and 366-373).
IndexAfter(list, prevId) ==
  IF prevId = None THEN 0 ELSE ChildIndex(list, prevId)

\* An insert_block_to_parent that leaves the parent's children list alone.
InsertBlockToParentSkip(d, id, prevId) ==
  IF d.parent[id] = NoParent \/ ~Exists(d, d.parent[id]) THEN Err(d) ELSE Ok(d)

\* Document::insert_block_to_parent
InsertBlockToParent(d, id, prevId) ==
  LET parentId == d.parent[id] IN
  IF parentId = NoParent THEN Err(d)
  ELSE IF ~Exists(d, parentId) THEN Err(d)
  ELSE Ok(MakeDoc(d.parent,
                  [d.children EXCEPT ![parentId] =
                     InsertChild(@, id, IndexAfter(@, prevId))],
                  d.text, d.ext))

\* Document::insert_block
InsertBlock(d, id, parent, prevId, ext) ==
  LET created == CreateBlock(d, id, parent, ext) IN
  IF ~created.ok THEN created ELSE InsertBlockToParent(created.doc, id, prevId)

\* A delete_block_from_parent that leaves the parent's children list alone.
DeleteBlockFromParentNone(d, id, parentId) == d
\* Document::delete_block_from_parent
DeleteBlockFromParent(d, id, parentId) ==
  IF Exists(d, parentId)
  THEN MakeDoc(d.parent, [d.children EXCEPT ![parentId] = DeleteChild(@, id)], d.text, d.ext)
  ELSE d

\* TextOperation::delete_text_with_txn: no text is left under the id.
DeleteTextWithTxn(d, id) ==
  MakeDoc(d.parent, d.children, [d.text EXCEPT ![id] = NoText], d.ext)

\* Depth of recursion after which delete_block is known to run in a cycle of
\* children lists: the recursion does not end and the call stack overflows.
MaxDepth == Cardinality(AllIds) + 1

\* Document::delete_block; DeleteEach is its loop over the children collected
\* before the first recursive call, errors of the recursive calls discarded.
RECURSIVE DeleteBlockAt(_, _, _), DeleteEach(_, _, _)
DeleteBlockAt(d, id, depth) ==
  IF ~Exists(d, id) THEN Err(d)
  ELSE IF depth > MaxDepth THEN Crash(d)
  ELSE LET parentId == d.parent[id]
           sub == DeleteEach(d, d.children[id], depth + 1) IN
       IF sub.crash THEN sub
       ELSE LET unlinked == DeleteBlockFromParent(sub.doc, id, parentId)
                \* the text under the external_id the block had when it was read
                cut == IF d.ext[id] = None THEN unlinked
                       ELSE DeleteTextWithTxn(unlinked, d.ext[id]) IN
            \* BlockOperation::delete_block_with_txn
            IF ~Exists(cut, id) THEN Err(cut)
            ELSE Ok(MakeDoc([cut.parent EXCEPT ![id] = NoBlock],
                            [cut.children EXCEPT ![id] = <<>>], cut.text,
                            [cut.ext EXCEPT ![id] = None]))
DeleteEach(d, list, depth) ==
  IF list = <<>> THEN Ok(d)
  ELSE LET r == DeleteBlockAt(d, list[1], depth) IN
       IF r.crash THEN r ELSE DeleteEach(r.doc, Tail(list), depth)

DeleteBlock(d, id) == DeleteBlockAt(d, id, 1)

\* The ids in the order in which delete_block_with_txn removes them from the
\* block map during delete_block(id): the loop over the children runs before
\* the block itself is removed (lines 262-286).
RECURSIVE DeletionOrderAt(_, _, _), DeletionOrderEach(_, _, _)
DeletionOrderAt(d, id, depth) ==
  IF ~Exists(d, id) \/ depth > MaxDepth THEN <<>>
  ELSE DeletionOrderEach(d, d.children[id], depth + 1) \o <<id>>
DeletionOrderEach(d, list, depth) ==
  IF list = <<>> THEN <<>>
  ELSE DeletionOrderAt(d, list[1], depth)
         \o DeletionOrderEach(DeleteBlockAt(d, list[1], depth).doc, Tail(list), depth)
DeletionOrder(d, id) == DeletionOrderAt(d, id, 1)

\* Document::update_block_data
UpdateBlockData(d, id) == IF Exists(d, id) THEN Ok(d) ELSE Err(d)

\* A move_block that does not remove the block from its old parent's list.
MoveBlockNoRemove(d, id, parentId, prevId) ==
  IF parentId = None \/ ~Exists(d, parentId) THEN Err(d)
  ELSE IF ~Exists(d, id) THEN Err(d)
  ELSE IF ~Exists(d, d.parent[id]) THEN Err(d)
  ELSE Ok(MakeDoc([d.parent EXCEPT ![id] = parentId],
                  [d.children EXCEPT ![parentId] =
                     InsertChild(@, id, IndexAfter(@, prevId))],
                  d.text, d.ext))
\* Document::move_block
MoveBlock(d, id, parentId, prevId) ==
  IF parentId = None \/ ~Exists(d, parentId) THEN Err(d)
  ELSE IF ~Exists(d, id) THEN Err(d)
  ELSE IF ~Exists(d, d.parent[id]) THEN Err(d)
  ELSE LET oldParent == d.parent[id]
           removed == [d.children EXCEPT ![oldParent] = DeleteChild(@, id)]
           inserted == [removed EXCEPT ![parentId] =
                          InsertChild(@, id, IndexAfter(@, prevId))] IN
       Ok(MakeDoc([d.parent EXCEPT ![id] = parentId], inserted, d.text, d.ext))

\* TextOperation::create_text_with_txn: an empty text under the id.
CreateText(d, id) ==
  MakeDoc(d.parent, d.children, [d.text EXCEPT ![id] = EmptyText], d.ext)
\* TextOperation::apply_delta_with_txn: the delta is applied to the text under
\* the id, a text that is made when there is none (create_document makes the
\* texts of the data by this call alone, line 468).
ApplyDeltaWithTxn(d, id, delta) ==
  MakeDoc(d.parent, d.children,
          [d.text EXCEPT ![id] = [exists |-> TRUE, chars |-> ApplyDeltaAt(@.chars, delta, 0)]],
          d.ext)
\* Document::create_text_with_txn (lines 132-140): the text is created, the
\* delta applied if it parses.
CreateTextWithTxn(d, id, str) ==
  LET parsed == DeserializeTextDelta(str)
      created == CreateText(d, id) IN
  IF parsed.ok THEN ApplyDeltaWithTxn(created, id, parsed.delta) ELSE created
\* Document::apply_text_delta_with_txn (lines 152-163): the parsed delta, or an
\* empty one for a string that does not parse.
ApplyTextDeltaWithTxn(d, id, str) ==
  LET parsed == DeserializeTextDelta(str) IN
  ApplyDeltaWithTxn(d, id, IF parsed.ok THEN parsed.delta ELSE <<>>)
\* TextOperation::serialize_all_text_delta: the delta of every text of the text
\* map, as a JSON string.
SerializeAllTextDelta(d) ==
  {<<id, DeltaString(DeltaOf(d.text[id].chars))>> : id \in {x \in TextIds : d.text[x].exists}}

\* Document::get_document_data: the page id, the blocks of the block map, the
\* children lists and the text map.
GetDocumentData(d) ==
  [page_id |-> PageId,
   blocks |-> {[id |-> id, parent |-> d.parent[id], external_id |-> d.ext[id]] :
                 id \in {x \in AllIds : Exists(d, x)}},
   children_map |-> {<<id, d.children[id]>> :
                       id \in {x \in AllIds : Exists(d, x) \/ d.children[x] # <<>>}},
   text_map |-> SerializeAllTextDelta(d)]

\* The document before create_document inserts the data.
EmptyDoc ==
  MakeDoc([id \in AllIds |-> NoBlock], [id \in AllIds |-> <<>>], [id \in TextIds |-> NoText],
          [id \in AllIds |-> None])
\* A push that puts the child id in front of the list.
PushFront(list, id) == <<id>> \o list
\* map.push_back(txn, child_id) (line 463)
PushBack(list, id) == Append(list, id)
\* The loop over data.blocks (lines 456-458): an error ends create_document.
RECURSIVE CreateBlocks(_, _)
CreateBlocks(d, blocks) ==
  IF blocks = {} THEN Ok(d)
  ELSE LET b == CHOOSE x \in blocks : TRUE
           r == CreateBlock(d, b.id, b.parent, b.external_id) IN
       IF ~r.ok THEN r ELSE CreateBlocks(r.doc, blocks \ {b})
\* child_ids.iter().for_each(push_back) (lines 462-464)
RECURSIVE PushAll(_, _)
PushAll(list, ids) ==
  IF ids = <<>> THEN list ELSE PushAll(PushBack(list, ids[1]), Tail(ids))
\* The loop over data.meta.children_map (lines 460-465).
RECURSIVE FillChildren(_, _)
FillChildren(d, entries) ==
  IF entries = {} THEN d
  ELSE LET e == CHOOSE x \in entries : TRUE IN
       FillChildren(MakeDoc(d.parent, [d.children EXCEPT ![e[1]] = PushAll(@, e[2])], d.text,
                            d.ext),
                    entries \ {e})
\* A create_document that leaves the text map of the data aside.
FillTextsNone(d, entries) == d
\* The loop over data.meta.text_map (lines 465-470): the delta parsed from the
\* string, an empty one if it does not parse, is applied under the id.
RECURSIVE FillTexts(_, _)
FillTexts(d, entries) ==
  IF entries = {} THEN d
  ELSE LET e == CHOOSE x \in entries : TRUE
           parsed == DeserializeTextDelta(e[2]) IN
       FillTexts(ApplyDeltaWithTxn(d, e[1], IF parsed.ok THEN parsed.delta ELSE <<>>),
                 entries \ {e})
\* Document::create_with_data
CreateWithData(data) ==
  LET created == CreateBlocks(EmptyDoc, data.blocks) IN
  IF ~created.ok THEN created
  ELSE Ok(FillTexts(FillChildren(created.doc, data.children_map), data.text_map))

\* A BlockAction: block is the id of payload.block (None without a block),
\* parent the parent field and ext the external_id of payload.block (None
\* unless the action is made by InsertExternal), parentId / prevId / textId /
\* delta the options of the payload.
Action(type, block, parent, parentId, prevId, textId, delta) ==
  [action |-> type, block |-> block, parent |-> parent, parentId |-> parentId,
   prevId |-> prevId, textId |-> textId, delta |-> delta, ext |-> None]

\* The handle_*_action functions (lines 560-645), dispatched as in apply_action.
HandleAction(d, a) ==
  CASE a.action = "Insert" ->
         IF a.block = None THEN Err(d)
         ELSE InsertBlock(d, a.block,
                          IF a.parent = NoParent /\ a.parentId # None
                          THEN a.parentId ELSE a.parent,
                          a.prevId, a.ext)
    [] a.action = "Update" ->
         IF a.block = None THEN Err(d) ELSE UpdateBlockData(d, a.block)
    [] a.action = "Delete" ->
         IF a.block = None THEN Err(d) ELSE DeleteBlock(d, a.block)
    [] a.action = "Move" ->
         IF a.block = None THEN Err(d)
         ELSE MoveBlock(d, a.block, a.parentId, a.prevId)
    [] a.action = "InsertText" ->
         IF a.textId = None \/ ~a.delta.some THEN Err(d)
         ELSE Ok(CreateTextWithTxn(d, a.textId, a.delta))
    [] OTHER -> \* ApplyTextDelta
         IF a.textId = None \/ ~a.delta.some THEN Err(d)
         ELSE Ok(ApplyTextDeltaWithTxn(d, a.textId, a.delta))

\* The loop of Document::apply_action inside with_origin_transact_mut: the
\* closure returns at the first error; the transaction then ends as any other.
\* Result: the document, the 1-based index of the failing action (0: none).
RECURSIVE ApplyFrom(_, _, _)
ApplyFrom(d, actions, i) ==
  IF i > Len(actions) THEN [doc |-> d, error |-> 0, crash |-> FALSE]
  ELSE LET r == HandleAction(d, actions[i]) IN
       IF r.ok THEN ApplyFrom(r.doc, actions, i + 1)
       ELSE [doc |-> r.doc, error |-> i, crash |-> r.crash]

Insert(b, parent, parentId, prevId) == Action("Insert", b, parent, parentId, prevId, None, NoDelta)
\* The insert of a block that has the text under ext as its external_id.
InsertExternal(b, parent, prevId, ext) == [Insert(b, parent, None, prevId) EXCEPT !.ext = ext]
Move(b, parentId, prevId) == Action("Move", b, NoParent, parentId, prevId, None, NoDelta)
InsertText(textId, delta) == Action("InsertText", None, NoParent, None, None, textId, delta)
ApplyTextDelta(textId, delta) ==
  Action("ApplyTextDelta", None, NoParent, None, None, textId, delta)
\* The delta strings of the text actions: one plain and one bold character.
PlainDelta == DeltaString(<<InsertedText(<<"a">>, FALSE)>>)
BoldDelta == DeltaString(<<InsertedText(<<"a">>, TRUE)>>)
Actions ==
  { Insert("b1", PageId, None, None), Insert("b2", PageId, None, None),
    Insert("b2", "b1", None, None), Insert("b1", NoParent, None, None),
    Insert("b2", NoParent, PageId, None),
    Action("Update", "b1", NoParent, None, None, None, NoDelta),
    Action("Delete", "b1", NoParent, None, None, None, NoDelta),
    Action("Delete", "b2", NoParent, None, None, None, NoDelta),
    Action("Delete", PageId, NoParent, None, None, None, NoDelta),
    Move("b1", "b2", None), Move("b2", "b1", None), Move("b1", PageId, "b2"),
    Move("b1", None, None),
    InsertText(None, BadDelta), ApplyTextDelta("t1", NoDelta) }
\* The actions that write a text, with deltas that parse and that do not, and
\* one without a delta.
TextActions ==
  { InsertText("t1", PlainDelta), InsertText("t1", BadDelta),
    ApplyTextDelta("t1", BoldDelta), ApplyTextDelta("t1", BadDelta),
    ApplyTextDelta("t1", NoDelta) }

ActionLists == UNION {[1 .. n -> Actions] : n \in 1 .. MaxActions}
\* The lists of text actions, and in a list of its own every action and the
\* insert of a block with the text as its external_id.
TextActionLists ==
  UNION {[1 .. n -> TextActions] : n \in 1 .. MaxActions}
    \cup {<<a>> : a \in Actions \cup {InsertExternal("b1", PageId, None, "t1")}}

\* Document::apply_action on a list of actions.
ApplyAction(actions) ==
  /\ lastActions = <<>>
  /\ LET r == ApplyFrom(doc, actions, 1) IN
     /\ \A id \in TextIds : Len(r.doc.text[id].chars) <= MaxTextLen
     /\ doc' = r.doc
     /\ lastError' = IF r.crash THEN -1 ELSE r.error
  /\ docBefore' = doc
  /\ lastActions' = actions
  /\ UNCHANGED otherThanDoc

\* The caller has looked at the outcome of apply_action; the record of the call
\* is dropped. After a stack overflow there is no caller left.
ForgetCall ==
  /\ lastActions # <<>>
  /\ lastError # -1
  /\ lastActions' = <<>>
  /\ lastError' = 0
  /\ docBefore' = doc
  /\ UNCHANGED <<doc, otherThanDoc>>

(* ---------------------------- row cache (Block) ------------------------ *)
\* The rows of one Block. The content of a row is the number of updates applied
\* to it since it was created; a row session writes through to the KV store, so
\* rows[r] is the content of the row document both in a cached session and in
\* the store. Block.collab_db is taken to upgrade (the database outlives its Block).
RowIds == {"r1", "r2", "r3"}
Threads == {"t1", "t2"}
CreatedRows == {"r1", "r2"}  \* rows create_row is called for
UpdatedRows == {"r1", "r2"}  \* rows update_row / update_row_meta are called for
ReadRows == {"r2", "r3"}     \* rows the read helpers are called for
ClosedRows == {{"r1"}, {"r2", "r3"}}  \* arguments of close_rows
DeletedRows == {"r1"}        \* rows delete_row is called for
BatchRows == {{"r2", "r3"}}  \* arguments of batch_load_rows
ReadOps == {"get_row", "get_row_meta", "get_cell"}
WriteOps == {"update_row", "update_row_meta"}
NoRow == [st |-> "none", ver |-> 0]       \* no document of this row in the KV store
Deleted == [st |-> "deleted", ver |-> 0]  \* the document holds the tombstone of delete()
LiveRow(v) == [st |-> "live", ver |-> v]  \* a row with v updates applied
EmptyRow == [st |-> "empty", ver |-> 0]   \* Row::empty(row_id), RowMeta::empty()
NoCell == [st |-> "None", ver |-> 0]      \* Option::None of get_cell
NoArg == "none"  \* the thread is in no call
NoRead == [st |-> "unread", ver |-> 0]

(* LruCache, as a sequence of keys, most recently used first. *)
InCache(c, r) == \E i \in 1 .. Len(c) : c[i] = r
RECURSIVE Without(_, _)
Without(c, r) ==
  IF c = <<>> THEN <<>>
  ELSE IF Head(c) = r THEN Without(Tail(c), r)
  ELSE <<Head(c)>> \o Without(Tail(c), r)
\* A cache lookup that leaves the order of use alone (LruCache::peek).
LruPeek(c, r) == c

\* LruCache::get: a hit makes the key the most recently used.
LruGet(c, r) == IF InCache(c, r) THEN <<r>> \o Without(c, r) ELSE c
\* An insert that does not look at the capacity.
LruPutUnbounded(c, r) == <<r>> \o Without(c, r)

\* LruCache::put: the key becomes the most recently used; a new key in a full
\* cache replaces the least recently used one.
LruPut(c, r) ==
  IF InCache(c, r) THEN <<r>> \o Without(c, r)
  ELSE IF Len(c) < CacheCapacity THEN <<r>> \o c
  ELSE <<r>> \o SubSeq(c, 1, Len(c) - 1)
\* LruCache::pop
LruPop(c, r) == Without(c, r)

\* The record of uses: row r was used and the cache now holds the keys of c.
RECURSIVE Restrict(_, _)
Restrict(u, c) ==
  IF u = <<>> THEN <<>>
  ELSE IF InCache(c, Head(u)) THEN <<Head(u)>> \o Restrict(Tail(u), c)
  ELSE Restrict(Tail(u), c)
Use(u, r, c) == Restrict(<<r>> \o Without(u, r), c)

Live(r) == rows[r].st = "live"

\* A read helper that hands the missing session on to its caller as None.
ReadValStrict(op, r, found) ==
  IF found /\ Live(r) THEN rows[r] ELSE NoCell

\* What the read helpers make of the result of get_or_init_row (found: Some).
ReadVal(op, r, found) ==
  IF found /\ Live(r) THEN rows[r]
  ELSE IF op = "get_cell" THEN NoCell ELSE EmptyRow

\* The add_task of get_or_init_row (lines 201-207): every call that misses
\* builds a FetchRow task of its own, with the seq it took and a sender of its
\* own, and hands it to the controller.
AddTask(q, r, seq) == Append(q, [row |-> r, seq |-> seq])

TasksFor(r) == {i \in 1 .. Len(tasks) : tasks[i].row = r}

\* The calls of a Block are made of the steps between which another thread can
\* run: the cache mutex is held for one statement (a lookup, a put, a pop), the
\* row mutex for the read or write that follows, and nothing is held between.

\* get_or_init_row, lines 194-196 and 231, called through a read helper: the
\* lookup under the cache lock. A hit hands the session on to the read, a miss
\* goes on to the KV probe.
GetOrInitRow(t, op, r) ==
  /\ bpc[t] = "idle"
  /\ cache' = LruGet(cache, r)
  /\ used' = IF InCache(cache, r) THEN Use(used, r, cache') ELSE used
  /\ bpc' = [bpc EXCEPT ![t] = IF InCache(cache, r) THEN "read" ELSE "probe"]
  /\ barg' = [barg EXCEPT ![t] = r]
  /\ UNCHANGED <<rows, tasks, sequence, waiting, bseq, lastRead, creating>>
  /\ UNCHANGED otherThanBlock

\* Line 198: is_exist under a read transaction of the KV store.
ProbeKv(t) ==
  /\ bpc[t] = "probe"
  /\ bpc' = [bpc EXCEPT ![t] = IF rows[barg[t]] # NoRow THEN "load" ELSE "enqueue"]
  /\ UNCHANGED <<cache, rows, tasks, sequence, waiting, barg, bseq, lastRead, used, creating>>
  /\ UNCHANGED otherThanBlock

NoSeq == -1
\* Line 205: sequence.fetch_add(1), evaluated while the task is built.
TakeSeq(t) ==
  /\ bpc[t] = "enqueue"
  /\ sequence < MaxFetchCalls
  /\ bseq' = [bseq EXCEPT ![t] = sequence]
  /\ sequence' = sequence + 1
  /\ bpc' = [bpc EXCEPT ![t] = "addtask"]
  /\ UNCHANGED <<cache, rows, tasks, waiting, barg, lastRead, used, creating>>
  /\ UNCHANGED otherThanBlock

\* Lines 199-218: add_task with the FetchRow task and return None; the helper
\* returns its placeholder.
EnqueueFetch(t, op) ==
  /\ bpc[t] = "addtask"
  /\ tasks' = AddTask(tasks, barg[t], bseq[t])
  /\ waiting' = [waiting EXCEPT ![barg[t]] = @ + 1]
  /\ lastRead' = ReadVal(op, barg[t], FALSE)
  /\ bpc' = [bpc EXCEPT ![t] = "idle"]
  /\ barg' = [barg EXCEPT ![t] = NoArg]
  /\ bseq' = [bseq EXCEPT ![t] = NoSeq]
  /\ UNCHANGED <<cache, rows, sequence, used, creating>>
  /\ UNCHANGED otherThanBlock

\* Lines 221-229: open the row session on the stored document and cache it,
\* under the cache lock.
LoadRow(t) ==
  /\ bpc[t] = "load"
  /\ cache' = LruPut(cache, barg[t])
  /\ used' = Use(used, barg[t], cache')
  /\ bpc' = [bpc EXCEPT ![t] = "read"]
  /\ UNCHANGED <<rows, tasks, sequence, waiting, barg, bseq, lastRead, creating>>
  /\ UNCHANGED otherThanBlock

\* The read helper on the session get_or_init_row returned (lines 128, 135,
\* 162): row.lock() and the read of the row document as it is by now.
ReadRow(t, op) ==
  /\ bpc[t] = "read"
  /\ lastRead' = ReadVal(op, barg[t], TRUE)
  /\ bpc' = [bpc EXCEPT ![t] = "idle"]
  /\ barg' = [barg EXCEPT ![t] = NoArg]
  /\ UNCHANGED <<cache, rows, tasks, sequence, waiting, bseq, used, creating>>
  /\ UNCHANGED otherThanBlock

\* Block::batch_load_rows, line 74: sequence.fetch_add(1) for the task.
BatchLoadRows(t) ==
  /\ bpc[t] = "idle"
  /\ sequence < MaxFetchCalls
  /\ bseq' = [bseq EXCEPT ![t] = sequence]
  /\ sequence' = sequence + 1
  /\ bpc' = [bpc EXCEPT ![t] = "batch"]
  /\ UNCHANGED <<cache, rows, tasks, waiting, barg, lastRead, used, creating>>
  /\ UNCHANGED otherThanBlock

\* Block::batch_load_rows, lines 70-84: add_task with the BatchFetchRow task
\* for the row ids of the call.
BatchTask == "batch"
BatchAddTask(t, ids) ==
  /\ bpc[t] = "batch"
  /\ tasks' = Append(tasks, [row |-> BatchTask, ids |-> ids, seq |-> bseq[t]])
  /\ bpc' = [bpc EXCEPT ![t] = "idle"]
  /\ bseq' = [bseq EXCEPT ![t] = NoSeq]
  /\ UNCHANGED <<cache, rows, sequence, waiting, barg, lastRead, used, creating>>
  /\ UNCHANGED otherThanBlock

\* Block::create_row, lines 111-118: DatabaseRow::create writes the row
\* document; the cache lock is not held. One create_row runs at a time.
CreateRow(r) ==
  /\ creating = NoArg
  /\ rows' = [rows EXCEPT ![r] = LiveRow(0)]
  /\ creating' = r
  /\ UNCHANGED <<cache, tasks, sequence, waiting, bpc, barg, bseq, lastRead, used>>
  /\ UNCHANGED otherThanBlock

\* Line 119: the session is put into the cache, under the cache lock.
CreateRowPut ==
  /\ creating # NoArg
  /\ cache' = LruPut(cache, creating)
  /\ used' = Use(used, creating, cache')
  /\ creating' = NoArg
  /\ UNCHANGED <<rows, tasks, sequence, waiting, bpc, barg, bseq, lastRead>>
  /\ UNCHANGED otherThanBlock

\* An update that materializes the row before it looks for it.
UpdateTargetLoaded(c, r) == TRUE

\* Lines 176 and 186: the session update_row / update_row_meta work on.
UpdateTarget(c, r) == InCache(c, r)

\* Block::update_row and Block::update_row_meta, lines 176 and 186: the lookup
\* under the cache lock; without a session the call is over.
UpdateRow(t, op, r) ==
  /\ bpc[t] = "idle"
  /\ Live(r) => rows[r].ver < MaxRowVersion
  /\ cache' = LruGet(cache, r)
  /\ used' = IF InCache(cache, r) THEN Use(used, r, cache') ELSE used
  /\ IF UpdateTarget(cache, r)
     THEN /\ bpc' = [bpc EXCEPT ![t] = "update"]
          /\ barg' = [barg EXCEPT ![t] = r]
     ELSE UNCHANGED <<bpc, barg>>
  /\ UNCHANGED <<rows, tasks, sequence, waiting, bseq, lastRead, creating>>
  /\ UNCHANGED otherThanBlock

\* Lines 178 and 188: the mutator is one more update of the row document, under
\* the row lock.
ApplyUpdate(t) ==
  /\ bpc[t] = "update"
  /\ rows' = [rows EXCEPT ![barg[t]] =
                IF @.st = "live" THEN LiveRow(@.ver + 1) ELSE @]
  /\ bpc' = [bpc EXCEPT ![t] = "idle"]
  /\ barg' = [barg EXCEPT ![t] = NoArg]
  /\ UNCHANGED <<cache, tasks, sequence, waiting, bseq, lastRead, used, creating>>
  /\ UNCHANGED otherThanBlock

\* Block::delete_row, line 166: the pop under the cache lock; without a session
\* the call is over.
PopRow(t, r) ==
  /\ bpc[t] = "idle"
  /\ cache' = LruPop(cache, r)
  /\ used' = Restrict(used, cache')
  /\ IF InCache(cache, r)
     THEN /\ bpc' = [bpc EXCEPT ![t] = "delete"]
          /\ barg' = [barg EXCEPT ![t] = r]
     ELSE UNCHANGED <<bpc, barg>>
  /\ UNCHANGED <<rows, tasks, sequence, waiting, bseq, lastRead, creating>>
  /\ UNCHANGED otherThanBlockAndCall

\* Line 168: DatabaseRow::delete on the popped session, under the row lock.
WriteTombstone(t) ==
  /\ bpc[t] = "delete"
  /\ rows' = [rows EXCEPT ![barg[t]] = Deleted]
  /\ bpc' = [bpc EXCEPT ![t] = "idle"]
  /\ barg' = [barg EXCEPT ![t] = NoArg]
  /\ UNCHANGED <<cache, tasks, sequence, waiting, bseq, lastRead, used, creating>>
  /\ UNCHANGED otherThanBlockAndCall

\* Block::delete_row
DeleteRow(t, r) == PopRow(t, r) /\ UNCHANGED callVars
DeleteRowEnd(t) == WriteTombstone(t) /\ UNCHANGED callVars

\* Block::delete_row with the call on record when it returns: after the pop
\* that found no session, or after the tombstone.
NoDelete == [row |-> "none", existed |-> FALSE, n |-> 0]
DeleteRowCall(t, r) ==
  /\ PopRow(t, r)
  /\ bcall' = IF InCache(cache, r) THEN bcall
              ELSE [row |-> r, existed |-> Live(r), n |-> 1 - bcall.n]
DeleteRowCallEnd(t) ==
  /\ WriteTombstone(t)
  /\ bcall' = [row |-> barg[t], existed |-> Live(barg[t]), n |-> 1 - bcall.n]

CallIdle == bcall = NoDelete

RECURSIVE PopAll(_, _)
PopAll(c, ids) ==
  IF ids = {} THEN c
  ELSE LET r == CHOOSE x \in ids : TRUE IN PopAll(LruPop(c, r), ids \ {r})

\* Block::close_rows
CloseRows(ids) ==
  /\ \E r \in ids : InCache(cache, r)
  /\ cache' = PopAll(cache, ids)
  /\ used' = Restrict(used, cache')
  /\ UNCHANGED <<rows, tasks, sequence, waiting, bpc, barg, bseq, lastRead, creating>>
  /\ UNCHANGED otherThanBlock

\* The task the controller runs next: the one with the least seq.
NextTask(q) == CHOOSE i \in 1 .. Len(q) : \A j \in 1 .. Len(q) : q[i].seq <= q[j].seq
Remove(q, i) == SubSeq(q, 1, i - 1) \o SubSeq(q, i + 1, Len(q))
\* The tasks of a row coalesce: the later ones are answered by the run of the
\* earliest, and leave the queue with it.
RECURSIVE RemoveRow(_, _)
RemoveRow(q, r) ==
  IF q = <<>> THEN <<>>
  ELSE IF Head(q).row = r THEN RemoveRow(Tail(q), r)
  ELSE <<Head(q)>> \o RemoveRow(Tail(q), r)

\* A completion that puts the fetched row into the cache, unless the row got a
\* document meanwhile.
CompleteFetchIntoCache(found) ==
  /\ tasks # <<>>
  /\ tasks[NextTask(tasks)].row # BatchTask
  /\ LET task == tasks[NextTask(tasks)]
         fresh == found /\ rows[task.row] = NoRow IN
     /\ rows' = IF fresh THEN [rows EXCEPT ![task.row] = LiveRow(0)] ELSE rows
     /\ cache' = IF fresh THEN LruPut(cache, task.row) ELSE cache
     /\ used' = IF fresh THEN Use(used, task.row, cache') ELSE used
     /\ waiting' = [waiting EXCEPT ![task.row] = @ - Cardinality(TasksFor(task.row))]
     /\ tasks' = RemoveRow(tasks, task.row)
  /\ UNCHANGED <<sequence, bpc, barg, bseq, lastRead, creating>>
  /\ UNCHANGED otherThanBlock

\* The task controller finishes a FetchRow task: the remote answered with the
\* row's updates (found), which go to the local log unless the row has a
\* document by now, or with nothing / an error; the sender of every task queued
\* for the row is served.
CompleteFetch(found) ==
  /\ tasks # <<>>
  /\ tasks[NextTask(tasks)].row # BatchTask
  /\ LET task == tasks[NextTask(tasks)] IN
     /\ rows' = IF found /\ rows[task.row] = NoRow
                THEN [rows EXCEPT ![task.row] = LiveRow(0)] ELSE rows
     /\ waiting' = [waiting EXCEPT ![task.row] = @ - Cardinality(TasksFor(task.row))]
     /\ tasks' = RemoveRow(tasks, task.row)
  /\ UNCHANGED <<cache, sequence, bpc, barg, bseq, lastRead, used, creating>>
  /\ UNCHANGED otherThanBlock

\* The task controller finishes a BatchFetchRow task: the remote answered for
\* the rows of found, whose updates go to the local log unless the row has a
\* document by now.
CompleteBatchFetch(found) ==
  /\ tasks # <<>>
  /\ tasks[NextTask(tasks)].row = BatchTask
  /\ found \subseteq tasks[NextTask(tasks)].ids
  /\ rows' = [r \in RowIds |-> IF r \in found /\ rows[r] = NoRow THEN LiveRow(0) ELSE rows[r]]
  /\ tasks' = Remove(tasks, NextTask(tasks))
  /\ UNCHANGED <<cache, sequence, waiting, bpc, barg, bseq, lastRead, used, creating>>
  /\ UNCHANGED otherThanBlock

BlockIdle ==
  /\ cache = <<>>
  /\ rows = [r \in RowIds |-> NoRow]
  /\ tasks = <<>>
  /\ sequence = 0
  /\ waiting = [r \in RowIds |-> 0]
  /\ bpc = [t \in Threads |-> "idle"]
  /\ barg = [t \in Threads |-> NoArg]
  /\ bseq = [t \in Threads |-> NoSeq]
  /\ lastRead = NoRead
  /\ used = <<>>
  /\ creating = NoArg

(* ------------------------ update log (KV store) ------------------------ *)
\* Objects are the documents of one tenant (uid 1 in the tests); an update key
\* is the object id followed by the big-endian clock, one byte each here.
Objects == {1, 2}
Workers == {"t1", "t2", "t3", "t4"}
ScanDoc == 1                       \* doc_id of scan_prefix_multi_thread
Payload(t) == CASE t = "t1" -> 11 [] t = "t2" -> 12 [] t = "t3" -> 13 [] OTHER -> 14
ClockMax == MaxAppends + 3         \* Clock::MAX
NoHolder == "none"
NoEntry == [key |-> <<>>, value |-> -1]
NoLoad == [obj |-> 0, state |-> <<>>]

\* The order of byte keys: lexicographic, a proper prefix comes first.
RECURSIVE KeyLess(_, _)
KeyLess(a, b) ==
  IF b = <<>> THEN FALSE
  ELSE IF a = <<>> THEN TRUE
  ELSE IF Head(a) # Head(b) THEN Head(a) < Head(b)
  ELSE KeyLess(Tail(a), Tail(b))

\* KVStore::insert: the value of an existing key is replaced.
KvInsert(store, k, v) == {e \in store : e.key # k} \cup {[key |-> k, value |-> v]}

\* The entries of the store in key order.
RECURSIVE Sorted(_)
Sorted(store) ==
  IF store = {} THEN <<>>
  ELSE LET first == CHOOSE e \in store : \A f \in store : f = e \/ KeyLess(e.key, f.key)
       IN <<first>> \o Sorted(store \ {first})

\* KVStore::range with both bounds closed.
RECURSIVE KvRangeClosed(_, _, _)
KvRangeClosed(es, lo, hi) ==
  IF es = <<>> THEN <<>>
  ELSE IF KeyLess(hi, Head(es).key) THEN <<>>
  ELSE IF KeyLess(Head(es).key, lo) THEN KvRangeClosed(Tail(es), lo, hi)
  ELSE <<Head(es)>> \o KvRangeClosed(Tail(es), lo, hi)

\* KVStore::range(lo..hi) over the entries in key order: the iterator starts at
\* the first key >= lo and ends before the first key >= hi.
RECURSIVE KvRange(_, _, _)
KvRange(es, lo, hi) ==
  IF es = <<>> THEN <<>>
  ELSE IF ~KeyLess(Head(es).key, hi) THEN <<>>
  ELSE IF KeyLess(Head(es).key, lo) THEN KvRange(Tail(es), lo, hi)
  ELSE <<Head(es)>> \o KvRange(Tail(es), lo, hi)

\* The reverse seek over the entries in key order: walks back from the end to
\* the first entry whose key is below k.
RECURSIVE SeekBack(_, _)
SeekBack(es, k) ==
  IF es = <<>> THEN NoEntry
  ELSE IF KeyLess(es[Len(es)].key, k) THEN es[Len(es)]
  ELSE SeekBack(SubSeq(es, 1, Len(es) - 1), k)

\* KVStore::next_back_entry: the entry prior to the given key.
NextBackEntry(store, k) == SeekBack(Sorted(store), k)

\* keys::make_doc_update_key and keys::clock_from_key.
MakeDocUpdateKey(obj, clock) == <<obj, clock>>
ClockFromKey(k) == k[Len(k)]
ObjFromKey(k) == k[1]
RecordsOf(store, obj) == {e \in store : ObjFromKey(e.key) = obj}

\* next_clock that takes whatever entry precedes the probe.
NextClockAnyPredecessor(store, obj) ==
  LET e == NextBackEntry(store, MakeDocUpdateKey(obj, ClockMax))
  IN IF e # NoEntry THEN ClockFromKey(e.key) + 1 ELSE 0

\* next_clock: the clock after the last record inside the object's own prefix.
NextClock(store, obj) ==
  LET e == NextBackEntry(store, MakeDocUpdateKey(obj, ClockMax))
  IN IF e # NoEntry /\ ObjFromKey(e.key) = obj THEN ClockFromKey(e.key) + 1 ELSE 0

\* The clock a thread of scan_prefix_multi_thread gives its record.
ScanClock(store, obj) ==
  LET e == NextBackEntry(store, MakeDocUpdateKey(obj, ClockMax))
      last_clock == IF e # NoEntry THEN ClockFromKey(e.key) ELSE 0
  IN last_clock + 1

\* A write lock that is handed out while it is held.
LockFreeAlways(holder) == TRUE

\* RwLock::write / the write mutex of the store: granted when nobody holds it.
LockFree(holder) == holder = NoHolder

\* load_doc that applies every record of the store.
LoadDocAll(store, obj) ==
  LET es == Sorted(store) IN [i \in 1 .. Len(es) |-> es[i].value]

\* load_doc: the updates of the object's range, applied in key order.
LoadDoc(store, obj) ==
  LET es == KvRange(Sorted(store), MakeDocUpdateKey(obj, 0), MakeDocUpdateKey(obj, ClockMax))
  IN [i \in 1 .. Len(es) |-> es[i].value]

\* A thread takes the write lock for an append to obj.
LockDb(t, obj) ==
  /\ spc[t] = "idle"
  /\ LockFree(dbLock)
  /\ dbLock' = t
  /\ spc' = [spc EXCEPT ![t] = "locked"]
  /\ sobj' = [sobj EXCEPT ![t] = obj]
  /\ UNCHANGED <<kv, sclock, applied, loaded>>
  /\ UNCHANGED otherThanStore

\* scan_prefix_multi_thread: reverse seek from the max key, last clock + 1.
ScanReadClock(t) ==
  /\ spc[t] = "locked"
  /\ sclock' = [sclock EXCEPT ![t] = ScanClock(kv, sobj[t])]
  /\ spc' = [spc EXCEPT ![t] = "read"]
  /\ UNCHANGED <<kv, dbLock, sobj, applied, loaded>>
  /\ UNCHANGED otherThanStore

\* push_update: reads next_clock under the write lock.
PushReadClock(t) ==
  /\ spc[t] = "locked"
  /\ sclock' = [sclock EXCEPT ![t] = NextClock(kv, sobj[t])]
  /\ spc' = [spc EXCEPT ![t] = "read"]
  /\ UNCHANGED <<kv, dbLock, sobj, applied, loaded>>
  /\ UNCHANGED otherThanStore

\* The insert of the record under the clock that was read.
InsertUpdate(t, value) ==
  /\ spc[t] = "read"
  /\ kv' = KvInsert(kv, MakeDocUpdateKey(sobj[t], sclock[t]), value)
  /\ applied' = [applied EXCEPT ![sobj[t]] = Append(@, value)]
  /\ spc' = [spc EXCEPT ![t] = "inserted"]
  /\ UNCHANGED <<dbLock, sobj, sclock, loaded>>
  /\ UNCHANGED otherThanStore

\* scan_prefix_multi_thread: the thread drops the write guard and ends.
ScanUnlock(t) ==
  /\ spc[t] = "inserted"
  /\ dbLock' = IF dbLock = t THEN NoHolder ELSE dbLock
  /\ spc' = [spc EXCEPT ![t] = "done"]
  /\ UNCHANGED <<kv, sobj, sclock, applied, loaded>>
  /\ UNCHANGED otherThanStore

\* push_update returns; the thread may push again.
PushUnlock(t) ==
  /\ spc[t] = "inserted"
  /\ dbLock' = IF dbLock = t THEN NoHolder ELSE dbLock
  /\ spc' = [spc EXCEPT ![t] = "idle"]
  /\ UNCHANGED <<kv, sobj, sclock, applied, loaded>>
  /\ UNCHANGED otherThanStore

\* create_new_doc: writes the document state at clock 0 if the object has no
\* record; AlreadyExists otherwise.
CreateNewDoc(t, obj) ==
  /\ spc[t] = "idle"
  /\ LockFree(dbLock)
  /\ RecordsOf(kv, obj) = {}
  /\ kv' = KvInsert(kv, MakeDocUpdateKey(obj, 0), 10 * obj)
  /\ applied' = [applied EXCEPT ![obj] = Append(@, 10 * obj)]
  /\ UNCHANGED <<dbLock, spc, sobj, sclock, loaded>>
  /\ UNCHANGED otherThanStore

\* load_doc into a fresh document.
LoadDocStep(obj) ==
  /\ loaded' = [obj |-> obj, state |-> LoadDoc(kv, obj)]
  /\ UNCHANGED <<kv, dbLock, spc, sobj, sclock, applied>>
  /\ UNCHANGED otherThanStore

StoreIdle ==
  /\ kv = {}
  /\ dbLock = NoHolder
  /\ spc = [t \in Workers |-> "idle"]
  /\ sobj = [t \in Workers |-> 0]
  /\ sclock = [t \in Workers |-> 0]
  /\ applied = [o \in Objects |-> <<>>]
  /\ loaded = NoLoad

(* ------------------------- write transactions -------------------------- *)
\* A write transaction that is granted while another one is open.
CanWriteAlways(held) == TRUE

\* Doc::try_transact_mut: granted only while no write transaction is open.
CanWrite(held) == held = {}

\* TransactionRetry::new(&doc): a caller starts to acquire a write transaction.
BeginWrite(t) ==
  /\ tpc[t] = "idle"
  /\ tpc' = [tpc EXCEPT ![t] = "retrying"]
  /\ attempts' = [attempts EXCEPT ![t] = 0]
  /\ UNCHANGED writers
  /\ UNCHANGED otherThanTxn

\* One attempt of try_get_write_txn_with: the transaction, or a backoff and
\* another attempt, or AcquiredWriteTxnFail after the last attempt.
TryAcquire(t) ==
  /\ tpc[t] = "retrying"
  /\ IF CanWrite(writers)
     THEN /\ writers' = writers \cup {t}
          /\ tpc' = [tpc EXCEPT ![t] = "holding"]
          /\ UNCHANGED attempts
     ELSE /\ attempts' = [attempts EXCEPT ![t] = @ + 1]
          /\ tpc' = [tpc EXCEPT ![t] = IF attempts[t] + 1 >= MaxRetries
                                       THEN "failed" ELSE "retrying"]
          /\ UNCHANGED writers
  /\ UNCHANGED otherThanTxn

\* drop(txn): the holder commits and releases its write transaction.
ReleaseTxn(t) ==
  /\ tpc[t] = "holding"
  /\ writers' = writers \ {t}
  /\ tpc' = [tpc EXCEPT ![t] = "idle"]
  /\ attempts' = [attempts EXCEPT ![t] = 0]
  /\ UNCHANGED otherThanTxn

\* The caller has seen the error and may start over.
GiveUp(t) ==
  /\ tpc[t] = "failed"
  /\ tpc' = [tpc EXCEPT ![t] = "idle"]
  /\ attempts' = [attempts EXCEPT ![t] = 0]
  /\ UNCHANGED writers
  /\ UNCHANGED otherThanTxn

TxnIdle ==
  /\ writers = {}
  /\ tpc = [t \in Workers |-> "idle"]
  /\ attempts = [t \in Workers |-> 0]

(* --------------------------- specifications ---------------------------- *)
\* CollabSink::new with a SinkConfig of one of the strategies and one of the
\* merge sizes.
SinkInitWith(strategies, sizes) ==
  /\ queue = {}
  /\ counter = 0
  /\ lock = "free"
  /\ runnerPc = "start"
  /\ inflight = NoMsg
  /\ ackChan = "none"
  /\ notifier = [val |-> FALSE, changed |-> FALSE]
  /\ ownerDropped = FALSE
  /\ strategy \in strategies
  /\ maxMergeSize \in sizes
  /\ mergeLimit \in 1 .. MaxMergeSize
  /\ elapsed = 0
  /\ sinceSend = 0
  /\ phase = IF strategy = "FixInterval" THEN NotPolled ELSE 0
  /\ notifying = 0
  /\ dtor = "none"
  /\ tickHolds = FALSE
  /\ retryHolds = 0
  /\ retryTasks = 0
  /\ transportOpen = TRUE
  /\ sends = [i \in MsgIds |-> 0]
  /\ sinkState = "Init"
  /\ sendFailed = FALSE
  /\ ackedInTime = {}
\* A sink whose configuration keeps the merge size it is built with.
SinkInit(strategies) == SinkInitWith(strategies, {MaxMergeSize})

(* ------------------------------- cells --------------------------------- *)
\* The cells of one row, keyed by field id. A Cell is a key/value map; the keys
\* modelled are data, created_at and last_modified.
FieldIds == {"f1", "f2"}
CellData == {1, 2}
NoField == "none"
Absent == -1    \* the map holds no value under the key
EmptyMap == [data |-> Absent, created_at |-> Absent, last_modified |-> Absent]
\* A cell built by the caller, without time keys (TestTextCell in the tests).
TextCell(v) == [data |-> v, created_at |-> Absent, last_modified |-> Absent]
\* Cell::fill_map_ref: every key the cell holds is written into the map.
FillMapRef(cell, map) ==
  [k \in DOMAIN map |-> IF cell[k] = Absent THEN map[k] ELSE cell[k]]
\* The cells a caller may write: built ones, and cells read from the row.
WrittenCells(cs) ==
  {TextCell(v) : v \in CellData} \cup {cs[g] : g \in {x \in FieldIds : cs[x] # EmptyMap}}

\* CellsUpdate::insert_cell; t is the reading of the second timestamp() call.
InsertCell(key, cell, t) ==
  /\ writes < MaxCellWrites
  /\ t \in now .. MaxTime /\ t <= now + 1
  /\ LET map == cells[key]
         created == IF map.created_at = Absent
                    THEN [map EXCEPT !.created_at = now] ELSE map
         filled == FillMapRef(cell, created) IN
     cells' = [cells EXCEPT ![key] = [filled EXCEPT !.last_modified = t]]
  /\ now' = t
  /\ writes' = writes + 1
  /\ lastField' = key
  /\ UNCHANGED otherThanCell

\* Cells::fill_map_ref, lines 26-31, for a Cells value cs (field id -> Cell):
\* each cell is written into the cell map of its field, which is created if
\* the row has none; no time is read and no time key is set.
CellsFillMapRef(cs) ==
  /\ cells' = [f \in FieldIds |->
                IF f \in DOMAIN cs THEN FillMapRef(cs[f], cells[f]) ELSE cells[f]]
  /\ UNCHANGED <<now, writes, lastField, otherThanCell>>

\* Time passes between two calls.
ClockTick ==
  /\ now < MaxTime
  /\ now' = now + 1
  /\ UNCHANGED <<cells, writes, lastField, otherThanCell>>

CellIdle ==
  /\ cells = [f \in FieldIds |-> EmptyMap]
  /\ now = 0
  /\ writes = 0
  /\ lastField = NoField

(* ----------------------------- undo / redo ----------------------------- *)
\* A Collab session with its undo manager, and the undo / redo methods of a
\* Document on top of it. The content is a map of keys to values; a change is
\* one insert, recorded as [key, old, new].
Keys == {"k1", "k2"}
Values == {"a", "b"}
NoValue == "none"
NoCall == [op |-> "none", result |-> "none"]
Call(op, result) == [op |-> op, result |-> result]
Bool(b) == IF b THEN "true" ELSE "false"
Front(stack) == SubSeq(stack, 1, Len(stack) - 1)
Top(stack) == stack[Len(stack)]

\* An undo manager that every session has from the start.
ManagerEnabledAlways(on) == TRUE
\* Collab::undo / redo look for the undo manager of the session.
ManagerEnabled(on) == on

\* UndoManager::undo on [map, undo, redo]: the last change is reverted and
\* moves to the redo stack.
UndoOp(st) ==
  LET c == Top(st.undo) IN
  [map |-> [st.map EXCEPT ![c.key] = c.old],
   undo |-> Front(st.undo), redo |-> Append(st.redo, c)]
\* UndoManager::redo: the last undone change is applied again.
RedoOp(st) ==
  LET c == Top(st.redo) IN
  [map |-> [st.map EXCEPT ![c.key] = c.new],
   undo |-> Append(st.undo, c), redo |-> Front(st.redo)]
Session == [map |-> cmap, undo |-> undoStack, redo |-> redoStack]
SetSession(st) ==
  /\ cmap' = st.map
  /\ undoStack' = st.undo
  /\ redoStack' = st.redo

\* Collab::insert: the change is tracked once the undo manager is enabled, and
\* a new change empties the redo stack.
CollabInsert(k, v) ==
  /\ undoOn => Len(undoStack) < MaxUndoDepth
  /\ cmap' = [cmap EXCEPT ![k] = v]
  /\ undoStack' = IF undoOn
                  THEN Append(undoStack, [key |-> k, old |-> cmap[k], new |-> v])
                  ELSE undoStack
  /\ redoStack' = <<>>
  /\ lastCall' = Call("insert", "ok")
  /\ UNCHANGED <<undoOn, atEnable, guardHeld, upc, otherThanUndo>>

\* Collab::enable_undo_redo
EnableUndoRedo ==
  /\ ~undoOn
  /\ undoOn' = TRUE
  /\ atEnable' = cmap
  /\ lastCall' = Call("enable", "ok")
  /\ UNCHANGED <<cmap, undoStack, redoStack, guardHeld, upc, otherThanUndo>>

\* Collab::can_undo and Collab::can_redo as values.
CanUndo == ManagerEnabled(undoOn) /\ undoStack # <<>>
CanRedo == ManagerEnabled(undoOn) /\ redoStack # <<>>

\* Collab::undo: Err(UndoManagerNotEnabled) without undo manager, else whether
\* a change was undone.
CollabUndo ==
  /\ IF ~ManagerEnabled(undoOn)
     THEN lastCall' = Call("undo", "UndoManagerNotEnabled")
          /\ UNCHANGED <<cmap, undoStack, redoStack>>
     ELSE IF undoStack = <<>>
     THEN lastCall' = Call("undo", "false") /\ UNCHANGED <<cmap, undoStack, redoStack>>
     ELSE lastCall' = Call("undo", "true") /\ SetSession(UndoOp(Session))
  /\ UNCHANGED <<undoOn, atEnable, guardHeld, upc, otherThanUndo>>
\* Collab::redo
CollabRedo ==
  /\ IF ~ManagerEnabled(undoOn)
     THEN lastCall' = Call("redo", "UndoManagerNotEnabled")
          /\ UNCHANGED <<cmap, undoStack, redoStack>>
     ELSE IF redoStack = <<>>
     THEN lastCall' = Call("redo", "false") /\ UNCHANGED <<cmap, undoStack, redoStack>>
     ELSE lastCall' = Call("redo", "true") /\ SetSession(RedoOp(Session))
  /\ UNCHANGED <<undoOn, atEnable, guardHeld, upc, otherThanUndo>>
\* Collab::can_undo, Collab::can_redo
CollabCanUndo ==
  /\ lastCall' = Call("can_undo", Bool(CanUndo))
  /\ UNCHANGED <<cmap, undoOn, undoStack, redoStack, atEnable, guardHeld, upc, otherThanUndo>>
CollabCanRedo ==
  /\ lastCall' = Call("can_redo", Bool(CanRedo))
  /\ UNCHANGED <<cmap, undoOn, undoStack, redoStack, atEnable, guardHeld, upc, otherThanUndo>>

\* A try_lock that is granted while another thread holds the mutex.
TryLockAlways(held) == TRUE
\* self.inner.try_lock() of the Document methods: Some unless the mutex is held.
TryLock(held) == ~held

\* Document::can_undo, Document::can_redo
DocCanUndoValue == IF TryLock(guardHeld) THEN CanUndo ELSE FALSE
DocCanRedoValue == IF TryLock(guardHeld) THEN CanRedo ELSE FALSE
DocCanUndo ==
  /\ undoOn
  /\ upc = "idle"
  /\ lastCall' = Call("doc_can_undo", Bool(DocCanUndoValue))
  /\ UNCHANGED <<cmap, undoOn, undoStack, redoStack, atEnable, guardHeld, upc, otherThanUndo>>
DocCanRedo ==
  /\ undoOn
  /\ upc = "idle"
  /\ lastCall' = Call("doc_can_redo", Bool(DocCanRedoValue))
  /\ UNCHANGED <<cmap, undoOn, undoStack, redoStack, atEnable, guardHeld, upc, otherThanUndo>>

\* Document::undo, lines 403-405: can_undo takes the mutex, reads and lets go
\* of it; false ends the call.
DocUndo ==
  /\ undoOn
  /\ upc = "idle"
  /\ IF ~DocCanUndoValue
     THEN lastCall' = Call("doc_undo", "false") /\ UNCHANGED upc
     ELSE upc' = "undo" /\ UNCHANGED lastCall
  /\ UNCHANGED <<cmap, undoOn, undoStack, redoStack, atEnable, guardHeld, otherThanUndo>>
\* Lines 406-410: the second try_lock, and Collab::undo on the stacks as they
\* are by now, its error turned into false by unwrap_or_default.
DocUndoLocked ==
  /\ upc = "undo"
  /\ upc' = "idle"
  /\ IF TryLock(guardHeld) /\ CanUndo
     THEN lastCall' = Call("doc_undo", "true") /\ SetSession(UndoOp(Session))
     ELSE lastCall' = Call("doc_undo", "false")
          /\ UNCHANGED <<cmap, undoStack, redoStack>>
  /\ UNCHANGED <<undoOn, atEnable, guardHeld, otherThanUndo>>
\* Document::redo, lines 392-394: can_redo.
DocRedo ==
  /\ undoOn
  /\ upc = "idle"
  /\ IF ~DocCanRedoValue
     THEN lastCall' = Call("doc_redo", "false") /\ UNCHANGED upc
     ELSE upc' = "redo" /\ UNCHANGED lastCall
  /\ UNCHANGED <<cmap, undoOn, undoStack, redoStack, atEnable, guardHeld, otherThanUndo>>
\* Lines 395-399: the second try_lock, and Collab::redo.
DocRedoLocked ==
  /\ upc = "redo"
  /\ upc' = "idle"
  /\ IF TryLock(guardHeld) /\ CanRedo
     THEN lastCall' = Call("doc_redo", "true") /\ SetSession(RedoOp(Session))
     ELSE lastCall' = Call("doc_redo", "false")
          /\ UNCHANGED <<cmap, undoStack, redoStack>>
  /\ UNCHANGED <<undoOn, atEnable, guardHeld, otherThanUndo>>

\* Another thread locks the MutexCollab of the session, and unlocks it.
LockInner ==
  /\ ~guardHeld
  /\ guardHeld' = TRUE
  /\ lastCall' = Call("lock", "ok")
  /\ UNCHANGED <<cmap, undoOn, undoStack, redoStack, atEnable, upc, otherThanUndo>>
UnlockInner ==
  /\ guardHeld
  /\ guardHeld' = FALSE
  /\ lastCall' = Call("unlock", "ok")
  /\ UNCHANGED <<cmap, undoOn, undoStack, redoStack, atEnable, upc, otherThanUndo>>

UndoIdle ==
  /\ cmap = [k \in Keys |-> NoValue]
  /\ undoOn = FALSE
  /\ undoStack = <<>>
  /\ redoStack = <<>>
  /\ atEnable = [k \in Keys |-> NoValue]
  /\ guardHeld = FALSE
  /\ lastCall = NoCall
  /\ upc = "idle"

(* ------------------------------- folder -------------------------------- *)
\* The views of a Folder and the legacy keys of its root map. folder.parent[id]
\* is the parent of view id (NoView: no such view, RootParent: none);
\* folder.children[id] the children of id in the view relations, present for
\* the ids in folder.relations.
FolderIds == {"w1", "w2", "v1", "v1_1", "v2"}
WorkspaceId == "w1"
NoView == "none"
RootParent == ""
NoId == "none"
MakeFolder(parent, children, relations) ==
  [parent |-> parent, children |-> children, relations |-> relations]
ViewExists(f, id) == id \in FolderIds /\ f.parent[id] # NoView
MakeView(id, parent, children) == [id |-> id, parent |-> parent, children |-> children]
\* make_test_view of the tests
TestViews ==
  { MakeView("v1_1", "v1", <<>>), MakeView("v1", "w1", <<"v1_1">>),
    MakeView("v2", "w1", <<>>) }
FolderOp(op, view, parent, prev, result) ==
  [op |-> op, view |-> view, parent |-> parent, prev |-> prev, result |-> result]

\* What the insert of a view makes of the children the view relations hold
\* under its id already: the children of the view take their place, or follow
\* them. The tests insert views under whose id the relations hold none.
ChildrenWrites == {"overwrite", "append"}
\* ViewsMap::insert_view_with_txn with index None: the view is appended to the
\* children of its parent if the parent is a view, then its own map is written.
\* A view inserted before its parent is found among the children the parent
\* lists once the parent is inserted, and only there
\* (create_view_with_sub_view_test).
InsertViewWithTxn(f, view, write) ==
  LET linked == IF ViewExists(f, view.parent)
                THEN [f.children EXCEPT ![view.parent] = Append(@, view.id)]
                ELSE f.children
      rel == IF ViewExists(f, view.parent)
             THEN f.relations \cup {view.parent} ELSE f.relations IN
  MakeFolder([f.parent EXCEPT ![view.id] = view.parent],
             [linked EXCEPT ![view.id] =
                IF write = "overwrite" THEN view.children ELSE @ \o view.children],
             rel \cup {view.id})

\* Folder::insert_view(view, None) for a view that is not in the folder; the
\* folder has its workspace view (create_folder_with_workspace, or migrated).
\* As in the tests, the children a view lists are in the folder, inserted
\* before it with the view as their parent.
InsertView(view) ==
  /\ ViewExists(folder, WorkspaceId)
  /\ ~ViewExists(folder, view.id)
  /\ \A i \in 1 .. Len(view.children) :
       ViewExists(folder, view.children[i]) /\ folder.parent[view.children[i]] = view.id
  /\ \E write \in ChildrenWrites : folder' = InsertViewWithTxn(folder, view, write)
  /\ fop' = FolderOp("insert", view.id, view.parent, None, "ok")
  /\ UNCHANGED <<workspaces, favoritesV1, migrating, otherThanFolder>>

\* ViewsMap::dissociate_parent_child_with_txn
Dissociate(f, parentId, viewId) ==
  IF parentId \in f.relations
  THEN MakeFolder(f.parent, [f.children EXCEPT ![parentId] = DeleteChild(@, viewId)],
                  f.relations)
  ELSE f
\* An associate that appends the view to the children of the parent.
AssociateLast(f, parentId, viewId, prevId) ==
  IF parentId \in f.relations
  THEN MakeFolder(f.parent, [f.children EXCEPT ![parentId] = Append(@, viewId)],
                  f.relations)
  ELSE f
\* ViewsMap::associate_parent_child_with_txn: after prev, first without prev.
Associate(f, parentId, viewId, prevId) ==
  IF parentId \in f.relations
  THEN MakeFolder(f.parent,
                  [f.children EXCEPT ![parentId] =
                     InsertChild(@, viewId, IndexAfter(@, prevId))],
                  f.relations)
  ELSE f
\* Folder::move_nested_view on the views: [ok, folder].
MoveNested(f, viewId, newParent, prevId) ==
  IF ~ViewExists(f, viewId) THEN [ok |-> FALSE, folder |-> f]
  ELSE IF newParent # WorkspaceId /\ ~ViewExists(f, newParent)
  THEN [ok |-> FALSE, folder |-> f]
  ELSE LET cut == Dissociate(f, f.parent[viewId], viewId)
           put == Associate(cut, newParent, viewId, prevId) IN
       [ok |-> TRUE,
        folder |-> MakeFolder([put.parent EXCEPT ![viewId] = newParent],
                              put.children, put.relations)]
MoveNestedView(viewId, newParent, prevId) ==
  /\ ViewExists(folder, WorkspaceId)
  /\ LET r == MoveNested(folder, viewId, newParent, prevId) IN
     /\ folder' = r.folder
     /\ fop' = FolderOp("move", viewId, newParent, prevId,
                        IF r.ok THEN "some" ELSE "none")
  /\ UNCHANGED <<workspaces, favoritesV1, migrating, otherThanFolder>>

\* to_workspace_with_txn: None for a map without id; the child views are the
\* children the view relations hold under the workspace id.
ToWorkspace(f, map) ==
  IF map.id = NoId THEN <<>>
  ELSE << [id |-> map.id,
           child_views |-> IF map.id \in f.relations THEN f.children[map.id] ELSE <<>>] >>
\* The flat_map over the maps of the legacy array (lines 36-40).
RECURSIVE ToWorkspaces(_, _)
ToWorkspaces(f, maps) ==
  IF maps = <<>> THEN <<>>
  ELSE ToWorkspace(f, Head(maps)) \o ToWorkspaces(f, Tail(maps))
\* View::from(workspace): the root workspace view, a view without parent, over
\* the child views of the workspace.
ViewFromWorkspace(w) == MakeView(w.id, RootParent, w.child_views)
\* Lines 46-50: the write transaction that inserts View::from(workspace).
MigrateWrite(f, legacy, workspace, write) ==
  [folder |-> InsertViewWithTxn(f, ViewFromWorkspace(workspace), write),
   workspaces |-> legacy]
NoMigration == [id |-> NoId, child_views |-> <<>>]
\* Folder::migrate_workspace_to_view, lines 33-44: the workspaces are collected
\* under a read transaction, which ends at line 41. Without the legacy array
\* the call returns None, without a workspace it logs an error and returns.
MigrateWorkspaceToView ==
  /\ migrating = NoMigration
  /\ LET ws == ToWorkspaces(folder, workspaces.items) IN
     IF ~workspaces.present
     THEN /\ fop' = FolderOp("migrate", None, None, None, "none")
          /\ UNCHANGED migrating
     ELSE IF ws = <<>>
     THEN /\ fop' = FolderOp("migrate", None, None, None, "some")
          /\ UNCHANGED migrating
     ELSE /\ migrating' = ws[Len(ws)]
          /\ UNCHANGED fop
  /\ UNCHANGED <<folder, workspaces, favoritesV1, otherThanFolder>>
\* Lines 45-53: the popped workspace is written as a view under a write
\* transaction of its own, whatever was written to the document meanwhile.
MigrateInsertView ==
  /\ migrating # NoMigration
  /\ \E write \in ChildrenWrites :
       LET r == MigrateWrite(folder, workspaces, migrating, write) IN
       /\ folder' = r.folder
       /\ workspaces' = r.workspaces
  /\ fop' = FolderOp("migrate", None, None, None, "some")
  /\ migrating' = NoMigration
  /\ UNCHANGED <<favoritesV1, otherThanFolder>>

\* The legacy arrays a folder may hold: none, an empty one, and arrays of
\* workspace maps with and without id.
LegacyMap(id) == [id |-> id]
LegacyArrays ==
  {[present |-> FALSE, items |-> <<>>]} \cup
  {[present |-> TRUE, items |-> a] :
     a \in { <<>>, <<LegacyMap(NoId)>>, <<LegacyMap("w1")>>,
             <<LegacyMap("w1"), LegacyMap("w2")>>, <<LegacyMap("w1"), LegacyMap(NoId)>> }}
\* The views of a legacy folder: none, or view v1 under workspace w1.
LegacyFolders ==
  { MakeFolder([id \in FolderIds |-> NoView], [id \in FolderIds |-> <<>>], {}),
    MakeFolder([id \in FolderIds |-> IF id = "v1" THEN "w1" ELSE NoView],
               [id \in FolderIds |-> IF id = "w1" THEN <<"v1">> ELSE <<>>],
               {"w1", "v1"}) }
\* A folder of the legacy format: the workspaces are not views yet.
FolderLegacy ==
  /\ folder \in LegacyFolders
  /\ workspaces \in LegacyArrays
  /\ favoritesV1 = <<"v1">>
  /\ fop = FolderOp("none", None, None, None, "none")
  /\ migrating = NoMigration
\* create_folder_with_workspace of the tests: a folder whose workspace is a
\* view, with no view under it and no legacy data.
FolderWithWorkspace ==
  /\ folder = MakeFolder([id \in FolderIds |-> IF id = WorkspaceId THEN RootParent ELSE NoView],
                         [id \in FolderIds |-> <<>>], {WorkspaceId})
  /\ workspaces = [present |-> FALSE, items |-> <<>>]
  /\ favoritesV1 = <<>>
  /\ fop = FolderOp("none", None, None, None, "none")
  /\ migrating = NoMigration
\* No folder in use.
FolderIdle ==
  /\ FolderLegacy
  /\ folder.relations = {}
  /\ workspaces = [present |-> FALSE, items |-> <<>>]

(* ------------------------------ snapshots ------------------------------ *)
\* Snapshot records live under their own kind byte, outside the range of the
\* update keys: next_clock and the update range never meet them.
NoSnapshot == [clock |-> -1, state |-> <<>>]

\* The values of the object's updates with a clock in lo .. hi, in key order.
UpdatesBetween(store, obj, lo, hi) ==
  LET es == KvRangeClosed(Sorted(store), MakeDocUpdateKey(obj, lo), MakeDocUpdateKey(obj, hi))
  IN [i \in 1 .. Len(es) |-> es[i].value]

\* load: the snapshot first, if there is one with clock C, then the updates
\* with a clock greater than C; every update of the range without a snapshot.
Load(store, snap, obj) ==
  IF snap = NoSnapshot THEN LoadDoc(store, obj)
  ELSE LET es == KvRange(Sorted(store), MakeDocUpdateKey(obj, snap.clock + 1),
                         MakeDocUpdateKey(obj, ClockMax))
       IN snap.state \o [i \in 1 .. Len(es) |-> es[i].value]

\* compact_to_snapshot(object, snapshot_bytes, up_to_clock): writes the snapshot
\* record, then deletes the updates with clock <= up_to_clock. The snapshot
\* bytes are the state the updates up to up_to_clock make.
CompactToSnapshot(obj, upToClock) ==
  /\ LockFree(dbLock)
  /\ snapshot[obj] = NoSnapshot
  /\ \E e \in RecordsOf(kv, obj) : ClockFromKey(e.key) = upToClock
  /\ snapshot' = [snapshot EXCEPT ![obj] =
                    [clock |-> upToClock, state |-> UpdatesBetween(kv, obj, 0, upToClock)]]
  /\ kv' = {e \in kv : ~(ObjFromKey(e.key) = obj /\ ClockFromKey(e.key) <= upToClock)}
  /\ UNCHANGED <<dbLock, spc, sobj, sclock, applied, loaded>>
  /\ UNCHANGED otherThanStoreAndSnap

\* load into a fresh document, from the snapshot and the updates.
LoadStep(obj) ==
  /\ loaded' = [obj |-> obj, state |-> Load(kv, snapshot[obj], obj)]
  /\ UNCHANGED <<kv, dbLock, spc, sobj, sclock, applied>>
  /\ UNCHANGED otherThanStore

SnapIdle == snapshot = [o \in Objects |-> NoSnapshot]

DocIdle ==
  /\ doc = DocInit
  /\ docBefore = DocInit
  /\ lastActions = <<>>
  /\ lastError = 0

RunnerNext ==
  \/ RunnerStart
  \/ RunnerWait
  \/ RunnerCheck
  \/ ProcessNextMsg
  \/ TrySendMsgImmediately
  \/ TransportSend
  \/ AckReceived
  \/ AckTimeout
  \/ MarkTimeout

ClientNext ==
  \/ \E kind \in Kinds : QueueMsg(kind)
  \/ \E msgId \in MsgIds : AckMsg(msgId)
  \/ RemoveAllPendingMsgs
  \/ Unlock
  \/ QueueNotify

\* The sink under SinkStrategy::Asap, with a transport that may close and an
\* owner that may drop the sink.
Init == SinkInit({"Asap"}) /\ DocIdle /\ BlockIdle /\ StoreIdle /\ TxnIdle /\ CellIdle /\ UndoIdle /\ FolderIdle /\ SnapIdle /\ CallIdle
Next ==
  \/ RunnerNext
  \/ ClientNext
  \/ RetryNotify
  \/ RetrySend
  \/ TransportClose
  \/ DropSink
  \/ SinkDrop
  \/ ReleaseFields
Spec == Init /\ [][Next]_vars

\* The sink under SinkStrategy::FixInterval(FixIntervalTicks), with the largest
\* merge size, while nothing is cleared and acks come for messages that were
\* sent and are not Done yet.
InitFix == SinkInit({"FixInterval"}) /\ mergeLimit = MaxMergeSize /\ DocIdle /\ BlockIdle /\ StoreIdle /\ TxnIdle /\ CellIdle /\ UndoIdle /\ FolderIdle /\ SnapIdle /\ CallIdle
NextFix ==
  \/ RunnerNext
  \/ \E kind \in FixKinds : QueueMsgUpTo(kind, MaxFixMsgs)
  \/ \E msgId \in MsgIds : AckSent(msgId)
  \/ Unlock
  \/ QueueNotify
  \/ RetryNotify
  \/ RetrySend
  \/ IntervalStart
  \/ IntervalSend
  \/ Tick
SpecFix == InitFix /\ [][NextFix]_vars

\* The Asap sink with the scheduling the runtime guarantees:
\* the runner task is polled whenever it can make a step (the ack timeout fires
\* when no ack comes), a caller leaves its critical section, a destructor that
\* has started runs to its end and a notifier task that upgraded its sender
\* sends on it.
NextLive ==
  \/ RunnerNext
  \/ \E kind \in AckKinds : QueueMsgUpTo(kind, MaxLiveMsgs)
  \/ \E msgId \in MsgIds : AckMsg(msgId)
  \/ RemoveAllPendingMsgs
  \/ Unlock
  \/ QueueNotify
  \/ RetryNotify
  \/ RetrySend
  \/ DropSink
  \/ SinkDrop
  \/ ReleaseFields
InitLive == Init /\ mergeLimit = MaxMergeSize
SpecLive ==
  /\ InitLive
  /\ [][NextLive]_vars
  /\ WF_vars(RunnerNext)
  /\ WF_vars(Unlock)
  /\ WF_vars(QueueNotify)
  /\ WF_vars(SinkDrop)
  /\ WF_vars(ReleaseFields)
  /\ WF_vars(RetrySend)

\* The Asap sink while its owner keeps it and the transport stays open, with
\* the largest merge size.
InitAck == Init /\ mergeLimit = MaxMergeSize
NextAck ==
  \/ RunnerNext
  \/ \E kind \in AckKinds : QueueMsgUpTo(kind, MaxAckMsgs)
  \/ \E msgId \in MsgIds : AckMsg(msgId)
  \/ RemoveAllPendingMsgs
  \/ Unlock
  \/ QueueNotify
  \/ RetryNotify
  \/ RetrySend
SpecAck == InitAck /\ [][NextAck]_vars

\* The document under apply_action.
SinkIdle == SinkInit({"Asap"}) /\ mergeLimit = 1
InitDoc == SinkIdle /\ DocIdle /\ BlockIdle /\ StoreIdle /\ TxnIdle /\ CellIdle /\ UndoIdle /\ FolderIdle /\ SnapIdle /\ CallIdle
NextDoc ==
  \/ \E actions \in ActionLists : ApplyAction(actions)
  \/ ForgetCall
SpecDoc == InitDoc /\ [][NextDoc]_vars

\* The same document under calls that write its texts: lists of text actions,
\* and calls with one action each, which between them reach every document a
\* list of these actions reaches (apply_action handles a list action by action
\* and stops at the first error).
NextText ==
  \/ \E actions \in TextActionLists : ApplyAction(actions)
  \/ ForgetCall
SpecText == InitDoc /\ [][NextText]_vars

\* The read helpers of a Block called from the given threads.
ReadNext(threads, ids) ==
  \/ \E t \in threads, op \in ReadOps, r \in ids : GetOrInitRow(t, op, r)
  \/ \E t \in threads : ProbeKv(t)
  \/ \E t \in threads : TakeSeq(t)
  \/ \E t \in threads, op \in ReadOps : EnqueueFetch(t, op)
  \/ \E t \in threads : LoadRow(t)
  \/ \E t \in threads, op \in ReadOps : ReadRow(t, op)

\* The rows of a Block read by concurrent threads while one of them is created
\* and closed and the task controller works off its queue.
InitRows == SinkIdle /\ DocIdle /\ BlockIdle /\ StoreIdle /\ TxnIdle /\ CellIdle /\ UndoIdle /\ FolderIdle /\ SnapIdle /\ CallIdle
NextRows ==
  \/ ReadNext(Threads, ReadRows)
  \/ CreateRow("r2")
  \/ CreateRowPut
  \/ CloseRows({"r2"})
  \/ \E found \in BOOLEAN : CompleteFetch(found)
SpecRows == InitRows /\ [][NextRows]_vars

\* The operations of a Block on single rows, called from one thread, while
\* rows are created and closed and the task controller works off its queue.
NextCache ==
  \/ ReadNext({"t1"}, ReadRows)
  \/ \E r \in CreatedRows : CreateRow(r)
  \/ CreateRowPut
  \/ \E op \in WriteOps, r \in UpdatedRows : UpdateRow("t1", op, r)
  \/ ApplyUpdate("t1")
  \/ \E r \in DeletedRows : DeleteRow("t1", r)
  \/ DeleteRowEnd("t1")
  \/ \E ids \in ClosedRows : CloseRows(ids)
  \/ \E found \in BOOLEAN : CompleteFetch(found)
SpecCache == InitRows /\ [][NextCache]_vars

\* The fetch tasks of a Block: rows are read one by one and loaded in a batch
\* from one thread while rows are created, updated and closed and the task
\* controller works off its queue.
NextFetch ==
  \/ ReadNext({"t1"}, ReadRows)
  \/ \E r \in CreatedRows : CreateRow(r)
  \/ CreateRowPut
  \/ \E op \in WriteOps, r \in UpdatedRows : UpdateRow("t1", op, r)
  \/ ApplyUpdate("t1")
  \/ BatchLoadRows("t1")
  \/ \E ids \in BatchRows : BatchAddTask("t1", ids)
  \/ \E ids \in ClosedRows : CloseRows(ids)
  \/ \E found \in BOOLEAN : CompleteFetch(found)
  \/ \E found \in SUBSET RowIds : CompleteBatchFetch(found)
SpecFetch == InitRows /\ [][NextFetch]_vars

\* scan_prefix_multi_thread: every thread appends one record to the same document.
InitScan == SinkIdle /\ DocIdle /\ BlockIdle /\ StoreIdle /\ TxnIdle /\ CellIdle /\ UndoIdle /\ FolderIdle /\ SnapIdle /\ CallIdle
NextScan ==
  \/ \E t \in Workers : LockDb(t, ScanDoc)
  \/ \E t \in Workers : ScanReadClock(t)
  \/ \E t \in Workers : InsertUpdate(t, Payload(t))
  \/ \E t \in Workers : ScanUnlock(t)
SpecScan == InitScan /\ [][NextScan]_vars

\* The document store used by two threads: create_new_doc, push_update, load_doc.
NextStore ==
  \/ \E t \in Threads, obj \in Objects : CreateNewDoc(t, obj)
  \/ \E t \in Threads, obj \in Objects :
       Len(applied[obj]) <= MaxAppends /\ LockDb(t, obj)
  \/ \E t \in Threads : PushReadClock(t)
  \/ \E t \in Threads : InsertUpdate(t, 10 * sobj[t] + Len(applied[sobj[t]]))
  \/ \E t \in Threads : PushUnlock(t)
  \/ \E obj \in Objects : LoadDocStep(obj)
SpecStore == InitScan /\ [][NextStore]_vars

\* Threads that acquire and release write transactions on one document; an
\* acquisition in progress keeps making attempts.
NextTxn ==
  \/ \E t \in Workers : BeginWrite(t)
  \/ \E t \in Workers : TryAcquire(t)
  \/ \E t \in Workers : ReleaseTxn(t)
  \/ \E t \in Workers : GiveUp(t)
SpecTxn ==
  /\ InitScan
  /\ [][NextTxn]_vars
  /\ \A t \in Workers : WF_vars(TryAcquire(t))

\* The cells of a row, filled from Cells values and written by insert_cell
\* while time passes.
NextCells ==
  \/ \E key \in FieldIds, cell \in WrittenCells(cells), t \in 0 .. MaxTime :
       InsertCell(key, cell, t)
  \/ \E fields \in SUBSET FieldIds \ {{}} :
       \E cs \in [fields -> WrittenCells(cells)] : CellsFillMapRef(cs)
  \/ ClockTick
SpecCells == InitScan /\ [][NextCells]_vars

\* A Collab session that is edited, gets its undo manager and is undone and
\* redone, through the Collab and through a Document, while another thread
\* takes and releases the mutex of the session.
NextUndo ==
  \/ \E k \in Keys, v \in Values : CollabInsert(k, v)
  \/ EnableUndoRedo
  \/ CollabUndo
  \/ CollabRedo
  \/ CollabCanUndo
  \/ CollabCanRedo
  \/ DocCanUndo
  \/ DocCanRedo
  \/ DocUndo
  \/ DocUndoLocked
  \/ DocRedo
  \/ DocRedoLocked
  \/ LockInner
  \/ UnlockInner
SpecUndo == InitScan /\ [][NextUndo]_vars

\* A folder created with its workspace, as the tests create it, and used by one
\* caller at a time: views are inserted and moved.
InitFolder ==
  SinkIdle /\ DocIdle /\ BlockIdle /\ StoreIdle /\ TxnIdle /\ CellIdle /\ UndoIdle
    /\ SnapIdle /\ CallIdle /\ FolderWithWorkspace
NextFolder ==
  \/ \E view \in TestViews : InsertView(view)
  \/ \E viewId \in {"v1", "v1_1", "v2"}, newParent \in FolderIds,
        prevId \in {None, "v1"} :
       MoveNestedView(viewId, newParent, prevId)
SpecFolder == InitFolder /\ [][NextFolder]_vars

\* A folder opened from legacy data: the migration runs, at any moment and any
\* number of times, while other writers of its document insert and move views,
\* also between the read and the write transaction of a migration. Children
\* lists are kept below MaxChildren entries.
Short(f) == \A id \in FolderIds : Len(f.children[id]) < MaxChildren
InitMigrate ==
  SinkIdle /\ DocIdle /\ BlockIdle /\ StoreIdle /\ TxnIdle /\ CellIdle /\ UndoIdle
    /\ SnapIdle /\ CallIdle /\ FolderLegacy
NextMigrate ==
  \/ \E view \in TestViews : Short(folder) /\ InsertView(view)
  \/ \E viewId \in {"v1", "v2"}, newParent \in {"w1", "v1"}, prevId \in {None, "v1"} :
       Short(folder) /\ MoveNestedView(viewId, newParent, prevId)
  \/ MigrateWorkspaceToView
  \/ Short(folder) /\ MigrateInsertView
SpecMigrate == InitMigrate /\ [][NextMigrate]_vars

\* The update log of one thread with snapshots: an object is created, appended
\* to, compacted once and loaded.
NextSnap ==
  \/ \E obj \in Objects : snapshot[obj] = NoSnapshot /\ CreateNewDoc("t1", obj)
  \/ \E obj \in Objects :
       applied[obj] # <<>> /\ Len(applied[obj]) <= MaxAppends /\ LockDb("t1", obj)
  \/ PushReadClock("t1")
  \/ InsertUpdate("t1", 10 * sobj["t1"] + Len(applied[sobj["t1"]]))
  \/ PushUnlock("t1")
  \/ \E obj \in Objects, upToClock \in 0 .. ClockMax : CompactToSnapshot(obj, upToClock)
  \/ \E obj \in Objects : LoadStep(obj)
SpecSnap == InitScan /\ [][NextSnap]_vars

\* The rows of a Block, created and closed, one of them read by one thread,
\* and deleted by another.
NextDelete ==
  \/ ReadNext({"t1"}, {"r2"})
  \/ \E r \in CreatedRows : CreateRow(r)
  \/ CreateRowPut
  \/ \E ids \in ClosedRows : CloseRows(ids)
  \/ \E r \in CreatedRows : DeleteRowCall("t2", r)
  \/ DeleteRowCallEnd("t2")
  \/ \E found \in BOOLEAN : CompleteFetch(found)
SpecDelete == InitRows /\ [][NextDelete]_vars

\* The Asap sink under the assumptions of delivery: the owner keeps the sink,
\* the transport accepts every send, nothing is cleared, the runner task is
\* polled whenever it can make a step, a caller leaves its critical section,
\* the re-notify task fires, and the ack of a message that was sent and is not
\* Done yet arrives, again if it has to. The
\* queue lock is held briefly: a try_lock or lock of the runner that can find
\* it free again and again does find it free.
NextSend ==
  \/ RunnerNext
  \/ \E kind \in Kinds : QueueMsgUpTo(kind, MaxAckMsgs)
  \/ \E msgId \in MsgIds : AckSent(msgId)
  \/ Unlock
  \/ QueueNotify
  \/ RetryNotify
  \/ RetrySend
SpecSend ==
  /\ Init
  /\ [][NextSend]_vars
  /\ WF_vars(RunnerNext)
  /\ SF_vars(TrySendMsgImmediately /\ lock = "free")
  /\ SF_vars(MarkTimeout)
  /\ WF_vars(Unlock)
  /\ WF_vars(QueueNotify)
  /\ WF_vars(RetryNotify)
  /\ WF_vars(RetrySend)
  /\ \A msgId \in MsgIds : SF_vars(AckSent(msgId))

\* The same sink built with any max_merge_size, its messages merging up to one
\* of the two largest sizes, while nothing is cleared and acks come for
\* messages that were sent and are not Done yet.
InitMerge ==
  /\ SinkInitWith({"Asap"}, 1 .. MaxMergeSize) /\ mergeLimit >= MaxMergeSize - 1
  /\ DocIdle /\ BlockIdle /\ StoreIdle /\ TxnIdle /\ CellIdle /\ UndoIdle /\ FolderIdle
  /\ SnapIdle /\ CallIdle
NextMerge ==
  \/ RunnerNext
  \/ \E kind \in AckKinds : QueueMsgUpTo(kind, MaxAckMsgs)
  \/ \E msgId \in MsgIds : AckSent(msgId)
  \/ Unlock
  \/ QueueNotify
  \/ RetryNotify
  \/ RetrySend
SpecMerge == InitMerge /\ [][NextMerge]_vars

\* One row read by concurrent threads: the row comes into the KV store by
\* create_row (while no read is in progress) or by a completed fetch, its
\* session is closed and the row is read again.
NextReaders ==
  \/ creating = NoArg /\ ReadNext(Threads, {"r1"})
  \/ rows["r1"] = NoRow /\ (\A t \in Threads : bpc[t] = "idle") /\ CreateRow("r1")
  \/ CreateRowPut
  \/ CloseRows({"r1"})
  \/ \E found \in BOOLEAN : CompleteFetch(found)
SpecReaders == InitRows /\ [][NextReaders]_vars

(* ------------------------------- claims -------------------------------- *)
Processing(q) == {m \in q : m.state = "Processing"}

\* C1: in every reachable state the pending queue holds at most one message
\* whose state is Processing.
C1_AtMostOneProcessing == Cardinality(Processing(queue)) <= 1

\* C2: a message whose ack (ack_msg with its id) arrives while the runner waits
\* for it, before the timeout, is put on the transport exactly once and is out
\* of the queue when the runner starts its next tick.
C2_AckedInTimeOnceAndRemoved ==
  \A id \in ackedInTime :
    /\ sends[id] = 1
    /\ runnerPc = "process" => id \notin Ids(queue)

\* C3: when the wait for an ack times out, the message that was sent and is
\* still queued is the one that returns to a pending state (Timeout).
C3_TimedOutRequeued ==
  [][(runnerPc = "timeout" /\ runnerPc' = "wait" /\ inflight.id \in Ids(queue))
       => \E m \in queue' : m.id = inflight.id /\ m.state = "Timeout"]_vars

\* C4: an ack whose id is not the id of the head message is ignored: ack_msg
\* changes no message, removes none and leaves the sink state, the ack channel
\* and the notifier as they are.
C4_MismatchedAckIgnored ==
  [][\A id \in MsgIds :
       (AckMsg(id) /\ (queue = {} \/ Peek(queue).id # id))
         => UNCHANGED <<queue, sinkState, ackChan, notifier, sends, counter>>]_vars

\* C4 witness: ack_msg has run and still holds the lock, the head of the queue
\* is not Done, so the ack did not match it; the message in flight is queued
\* behind the head, still Processing with its ack channel open.
C4_Witness ==
  /\ lock = "client"
  /\ queue # {}
  /\ Peek(queue).state # "Done"
  /\ ackChan = "open"
  /\ \E m \in queue : m.state = "Processing" /\ m # Peek(queue) /\ sends[m.id] > 0

\* C5: whenever ack_msg is called with the id of a message that was sent and
\* the queue is not empty, the id of the head is >= the acked id (the
\* debug_assert holds).
C5_AckAssertHolds ==
  [][\A id \in MsgIds : (AckMsg(id) /\ queue # {}) => Peek(queue).id >= id]_vars

\* C6: when the ack of a merged message (several payloads, the only message
\* queued) reaches the runner, the queue becomes empty and Finished is published.
C6_MergedAckFinishes ==
  [][(/\ runnerPc = "await" /\ runnerPc' = "wait"
      /\ ackChan = "fired"
      /\ Cardinality(inflight.ids) > 1
      /\ Ids(queue) = {inflight.id})
       => (queue' = {} /\ sinkState' = "Finished")]_vars

\* The step of process_next_msg, and the step of try_send_msg_immediately.
ProcessStep == runnerPc = "process" /\ runnerPc' # "process"
TrySendStep == runnerPc = "trysend" /\ runnerPc' # "trysend"

\* The head of the queue waits to be put on the transport.
HeadWaits == queue # {} /\ Peek(queue).state \in {"Pending", "Timeout"}
\* The parts of C7 on a tick under FixInterval(d), d = FixIntervalTicks, with
\* the time since the last send read from sinceSend. A tick with a deferrable
\* head sends nothing and leaves the queue alone before d has passed.
DeferredWhileEarly ==
  (ProcessStep /\ HeadWaits /\ Deferrable(Peek(queue).kind)
     /\ sinceSend < FixIntervalTicks)
    => (runnerPc' \in {"wait", "dropping"} /\ UNCHANGED <<queue, sends>>)
\* Once d has passed the tick goes on to send.
SentOnceDue ==
  (ProcessStep /\ HeadWaits /\ Deferrable(Peek(queue).kind)
     /\ sinceSend >= FixIntervalTicks)
    => (runnerPc' = "trysend" /\ UNCHANGED queue)
\* A head that is not deferrable goes on to be sent whatever the time.
UrgentNotDeferred ==
  (ProcessStep /\ HeadWaits /\ ~Deferrable(Peek(queue).kind))
    => (runnerPc' = "trysend" /\ UNCHANGED queue)
\* The tick that goes on to send puts the waiting head in flight.
HeadGoesOut ==
  (TrySendStep /\ HeadWaits)
    => (runnerPc' = "send" /\ inflight'.id = Peek(queue).id)

\* C7 as stated: under FixInterval(d) a tick with a deferrable head sends nothing
\* and leaves the queue alone while the time since the last send is < d, sends
\* the head once that time is >= d, and a non-deferrable head is sent whatever
\* the elapsed time.
C7_Original ==
  [][DeferredWhileEarly /\ SentOnceDue /\ UrgentNotDeferred /\ HeadGoesOut]_vars

\* C8: once the sink is dropped the runner loop terminates, and a runner that
\* has stopped puts nothing more on the transport.
C8_RunnerStops ==
  /\ ownerDropped ~> (runnerPc = "stopped")
  /\ [][runnerPc = "stopped" => (runnerPc' = "stopped" /\ sends' = sends)]_vars

\* C8 witness: the sink was dropped after it sent a message, the runner stopped.
C8_Witness ==
  /\ ownerDropped
  /\ runnerPc = "stopped"
  /\ \E i \in MsgIds : sends[i] > 0

\* C9: after a transport send failed, the runner removes no message that was
\* not acknowledged: each stays queued (possibly merged into another message).
C9_SendFailureKeepsMessages ==
  [][(sendFailed /\ lock' = lock)
       => \A m \in queue : m.state # "Done" => m.ids \subseteq Covered(queue')]_vars

\* C10 as stated: if an action of the list fails, none of the actions of the
\* list persists in the document.
C10_AllOrNothing == lastError > 0 => doc = docBefore

\* C11 as stated: a get_row for a row that has no document and no cached session
\* returns an empty row, and at most one fetch task is in flight per row id,
\* however many get_row calls were made for it.
C11_OneFetchPerRow ==
  /\ [](\A r \in RowIds : Cardinality(TasksFor(r)) <= 1)
  /\ [][\A t \in Threads : EnqueueFetch(t, "get_row") => lastRead' = EmptyRow]_vars

\* C12: the row cache never holds more entries than its capacity, whatever
\* operations were called.
C12_CacheBounded ==
  /\ Len(cache) <= CacheCapacity
  /\ \A i, j \in 1 .. Len(cache) : cache[i] = cache[j] => i = j

\* C12 witness: the cache is full and a row with a document is not in it.
C12_Witness ==
  /\ Len(cache) = CacheCapacity
  /\ \E r \in RowIds : Live(r) /\ ~InCache(cache, r)
  /\ \A r \in RowIds : rows[r] # NoRow

\* A step that puts a row that is not cached into a full cache.
InsertsInto(r) ==
  /\ \/ CreateRowPut /\ creating = r
     \/ \E t \in Threads : LoadRow(t) /\ barg[t] = r
  /\ ~InCache(cache, r)
  /\ Len(cache) = CacheCapacity

\* C13: putting one more row into a full cache removes exactly the row whose
\* last use (a read or a write) is the oldest, and leaves the fetch tasks alone.
C13_EvictsLeastRecentlyUsed ==
  [][\A r \in RowIds :
       InsertsInto(r) =>
         /\ {cache'[i] : i \in 1 .. Len(cache')}
              = ({cache[i] : i \in 1 .. Len(cache)} \ {used[Len(used)]}) \cup {r}
         /\ Len(cache') = CacheCapacity
         /\ UNCHANGED <<tasks, waiting>>]_vars

\* C13 witness: the cache is full, the row used last is one that was updated,
\* and a row with a document and a queued fetch task is out of the cache.
C13_Witness ==
  /\ Len(cache) = CacheCapacity
  /\ \A r \in RowIds : Live(r)
  /\ \E r \in RowIds : ~InCache(cache, r) /\ TasksFor(r) # {}
  /\ \E r \in RowIds : InCache(cache, r) /\ rows[r].ver > 0

\* C14: update_row and update_row_meta leave the cache, the stored rows and the
\* fetch tasks as they are when the row is not cached: only a call that found
\* the row in the cache goes on to its mutator, which is one more update of
\* that row, and nothing else raises the version of a row.
C14_UpdateOnlyCached ==
  [][/\ \A t \in Threads :
          (bpc[t] = "idle" /\ bpc'[t] = "update") => InCache(cache, barg'[t])
     /\ \A t \in Threads, op \in WriteOps, r \in UpdatedRows :
          (~InCache(cache, r) /\ UpdateRow(t, op, r))
            => UNCHANGED <<cache, rows, tasks, sequence, waiting>>
     /\ \A t \in Threads :
          (ApplyUpdate(t) /\ Live(barg[t]))
            => rows' = [rows EXCEPT ![barg[t]] = LiveRow(@.ver + 1)]
     /\ \A r \in RowIds :
          (Live(r) /\ rows'[r].st = "live" /\ rows'[r].ver > rows[r].ver)
            => \E t \in Threads : bpc[t] = "update" /\ barg[t] = r]_vars

\* C14 witness: a row has a document and no cached session (update_row does
\* nothing for it), and the mutator has run on another row.
C14_Witness ==
  /\ \E r \in UpdatedRows : Live(r) /\ ~InCache(cache, r) /\ rows[r].ver = 0
  /\ \E r \in UpdatedRows : rows[r].st = "live" /\ rows[r].ver > 0

\* C15: get_row and get_row_meta return their empty placeholder, not an
\* error, for a row that is neither cached nor in the KV store.
C15_MissingRowIsEmpty ==
  [][\A t \in Threads, op \in {"get_row", "get_row_meta"} :
       (bpc[t] \in {"addtask", "read"}
          /\ rows[barg[t]] = NoRow /\ ~InCache(cache, barg[t])
          /\ (EnqueueFetch(t, op) \/ ReadRow(t, op)))
         => lastRead' = EmptyRow]_vars

\* C15 witness: a read helper has returned its empty placeholder for a row
\* without document or session.
C15_Witness ==
  /\ lastRead = EmptyRow
  /\ \E r \in RowIds : rows[r] = NoRow /\ ~InCache(cache, r) /\ waiting[r] > 0

Inserted == {t \in Workers : spc[t] \in {"inserted", "done"}}
ClocksOf(store, obj) == {ClockFromKey(e.key) : e \in RecordsOf(store, obj)}
MaxOf(S) == CHOOSE x \in S : \A y \in S : y <= x
ProbeKeys ==
  {<<o>> : o \in 0 .. 3} \cup {<<o, c>> : o \in Objects, c \in 0 .. ClockMax}
Below(store, k) == {e \in store : KeyLess(e.key, k)}

\* C16: the threads that append to one document concurrently get distinct
\* clocks, the record of each is in the store under its clock, and the clocks
\* in the store are consecutive.
C16_AppendsDistinctDense ==
  /\ \A t, u \in Inserted : t # u => sclock[t] # sclock[u]
  /\ \A t \in Inserted :
       [key |-> MakeDocUpdateKey(ScanDoc, sclock[t]), value |-> Payload(t)] \in kv
  /\ \E lo \in 0 .. 1 :
       ClocksOf(kv, ScanDoc) = lo .. (lo + Cardinality(Inserted) - 1)

\* C16 witness: every thread has appended and the store holds one record each.
C16_Witness ==
  /\ \A t \in Workers : spc[t] = "done"
  /\ Cardinality(kv) = Cardinality(Workers)

\* C17: next_clock is 0 for an object without update record, whatever other
\* objects hold, and the last clock + 1 otherwise; next_back_entry(k) is the
\* entry with the largest key strictly below k, or none.
C17_NextClock ==
  /\ \A obj \in Objects :
       NextClock(kv, obj) =
         IF RecordsOf(kv, obj) = {} THEN 0 ELSE MaxOf(ClocksOf(kv, obj)) + 1
  /\ \A k \in ProbeKeys :
       LET e == NextBackEntry(kv, k)
       IN IF Below(kv, k) = {} THEN e = NoEntry
          ELSE /\ e \in Below(kv, k)
               /\ \A f \in Below(kv, k) : ~KeyLess(e.key, f.key)

\* C17 witness: next_clock has returned 0 for object 2, which has no record,
\* while object 1, whose keys are smaller, has two.
C17_Witness ==
  /\ RecordsOf(kv, 2) = {}
  /\ Cardinality(RecordsOf(kv, 1)) >= 2
  /\ \E t \in Threads : spc[t] = "read" /\ sobj[t] = 2 /\ sclock[t] = 0

\* C18: the range scan over the prefix of one object yields exactly the
\* records of that object in increasing clock order; a range includes its
\* lower bound and excludes its upper bound.
C18_RangeScan ==
  /\ \A obj \in Objects :
       LET es == KvRange(Sorted(kv), MakeDocUpdateKey(obj, 0),
                         MakeDocUpdateKey(obj, ClockMax))
       IN /\ {es[i] : i \in 1 .. Len(es)} = RecordsOf(kv, obj)
          /\ Len(es) = Cardinality(RecordsOf(kv, obj))
          /\ \A i \in 1 .. (Len(es) - 1) :
               ClockFromKey(es[i].key) < ClockFromKey(es[i + 1].key)
  /\ \A a, b \in kv :
       LET es == KvRange(Sorted(kv), a.key, b.key)
       IN {es[i] : i \in 1 .. Len(es)}
            = {e \in kv : ~KeyLess(e.key, a.key) /\ KeyLess(e.key, b.key)}

\* C18 witness: a load has scanned the two records of object 1 while object 2
\* has records of its own.
C18_Witness ==
  /\ loaded.obj = 1
  /\ Len(loaded.state) = 2
  /\ Cardinality(RecordsOf(kv, 2)) >= 2

\* C19: load_doc into a fresh document yields the updates given to the store
\* for that object, in their order, also while other objects are written.
C19_LoadEqualsApply ==
  [][\A obj \in Objects :
       LoadDocStep(obj) => loaded'.state = applied[obj]]_vars

\* C19 witness: object 2 was created, appended to and loaded while a thread
\* is in the middle of an append to object 1.
C19_Witness ==
  /\ loaded.obj = 2
  /\ Len(loaded.state) = MaxAppends + 1
  /\ loaded.state = applied[2]
  /\ \E t \in Threads : spc[t] = "read" /\ sobj[t] = 1 /\ sclock[t] > 0

\* C20: at most one write transaction is open at a time; an attempt made while
\* none is open gets the transaction, an attempt made while one is open does
\* not; an acquisition ends, with the transaction or with an error after
\* MaxRetries failed attempts.
C20_ExclusiveWriteTxn ==
  /\ [](Cardinality(writers) <= 1)
  /\ [](\A t \in Workers : tpc[t] = "failed" => attempts[t] = MaxRetries)
  /\ [][\A t \in Workers :
          TryAcquire(t) =>
            IF writers = {} THEN writers' = {t} ELSE writers' = writers]_vars
  /\ \A t \in Workers : (tpc[t] = "retrying") ~> (tpc[t] \in {"holding", "failed"})

\* C20 witness: one thread got the transaction after a failed attempt, when
\* the holder had released it, and another thread has run out of attempts.
C20_Witness ==
  /\ \E t \in Workers : tpc[t] = "holding" /\ attempts[t] > 0 /\ writers = {t}
  /\ \E u \in Workers : tpc[u] = "failed"

\* C30: while the runner waits for the ack of the message it sent, that
\* message, if still queued, is the head of the queue, whatever was queued
\* meanwhile; so the ack and the timeout of the wait act on that message.
C30_InFlightStaysHead ==
  (runnerPc \in {"await", "timeout"} /\ inflight.id \in Ids(queue))
    => Peek(queue).id = inflight.id

ChildSet(d, id) == {d.children[id][i] : i \in 1 .. Len(d.children[id])} \cap AllIds
\* The blocks reached from the blocks of S through at most n children lists.
RECURSIVE Below_(_, _, _)
Below_(d, S, n) ==
  IF n = 0 THEN {}
  ELSE LET next == UNION {ChildSet(d, id) : id \in S} IN next \cup Below_(d, next, n - 1)
Descendants(d, id) == Below_(d, {id}, Cardinality(AllIds))
\* The blocks reached from a block through at most n parent references.
RECURSIVE Above_(_, _, _)
Above_(d, id, n) ==
  IF n = 0 \/ ~Exists(d, id) \/ d.parent[id] \notin AllIds THEN {}
  ELSE {d.parent[id]} \cup Above_(d, d.parent[id], n - 1)
Ancestors(d, id) == Above_(d, id, Cardinality(AllIds))

\* C23: the block tree is acyclic: no block is reached from itself through
\* children lists, or through parent references.
C23_TreeAcyclic ==
  \A id \in AllIds : id \notin Descendants(doc, id) /\ id \notin Ancestors(doc, id)

Delete(b) == Action("Delete", b, NoParent, None, None, None, NoDelta)
\* C24: after a successful delete_block(b), b and every block below it are
\* gone from the block map, b is gone from its parent's children list, and
\* every block below another was removed before it.
C24_DeleteRemovesSubtree ==
  \A b \in AllIds :
    (lastActions = <<Delete(b)>> /\ lastError = 0) =>
      LET gone == {b} \cup Descendants(docBefore, b)
          order == DeletionOrder(docBefore, b)
          p == docBefore.parent[b] IN
      /\ \A x \in gone : ~Exists(doc, x)
      /\ p \in AllIds => ChildIndex(doc.children[p], b) = 0
      /\ \A x \in gone : Exists(docBefore, x) => ChildIndex(order, x) > 0
      /\ \A a \in gone : \A x \in Descendants(docBefore, a) :
           Exists(docBefore, x) => ChildIndex(order, x) < ChildIndex(order, a)
\* b1 with its child b2 was deleted from the page.
C24_Witness ==
  /\ lastActions = <<Delete("b1")>> /\ lastError = 0
  /\ ChildIndex(docBefore.children[PageId], "b1") > 0
  /\ ChildIndex(docBefore.children["b1"], "b2") > 0 /\ Exists(docBefore, "b2")
  /\ ~Exists(doc, "b1") /\ ~Exists(doc, "b2")
  /\ ChildIndex(doc.children[PageId], "b1") = 0

\* The list without every occurrence of b.
ListWithout(list, b) == SelectSeq(list, LAMBDA x : x # b)
\* C25: a successful move_block(b, p, prev) takes b out of its old parent's
\* list, puts it into p's list right after prev, or first when prev is absent
\* or not a child of p, sets b.parent to p and changes nothing else; the list
\* of p is the one left after the removal when p is also the old parent.
C25_MoveRepositions ==
  \A b \in BlockIds, p \in AllIds, prev \in AllIds \cup {None} :
    (lastActions = <<Move(b, p, prev)>> /\ lastError = 0) =>
      LET old == docBefore.parent[b]
          base == ListWithout(docBefore.children[p], b)
          k == IF \E i \in 1 .. Len(base) : base[i] = prev
               THEN CHOOSE i \in 1 .. Len(base) : base[i] = prev
               ELSE 0 IN
      /\ doc.parent = [docBefore.parent EXCEPT ![b] = p]
      /\ doc.children[p] = SubSeq(base, 1, k) \o <<b>> \o SubSeq(base, k + 1, Len(base))
      /\ old # p => doc.children[old] = ListWithout(docBefore.children[old], b)
      /\ \A q \in AllIds \ {old, p} : doc.children[q] = docBefore.children[q]
\* b1 was moved from the page, where it stood after b2, into the empty b2.
C25_Witness ==
  /\ lastActions = <<Move("b1", "b2", None)>> /\ lastError = 0
  /\ docBefore.children[PageId] = <<"b2", "b1">> /\ docBefore.children["b2"] = <<>>
  /\ doc.children[PageId] = <<"b2">> /\ doc.children["b2"] = <<"b1">>
  /\ doc.parent["b1"] = "b2"
\* b1 was moved within the page from before b2 to after b2.
C25_WitnessSameParent ==
  /\ lastActions = <<Move("b1", PageId, "b2")>> /\ lastError = 0
  /\ docBefore.children[PageId] = <<"b1", "b2">>
  /\ doc.children[PageId] = <<"b2", "b1">>

\* C27: the data returned by get_document_data after apply_action, given to
\* create_with_data, builds the same document: the same page id, the same blocks
\* with the same parents, the same ordered children list for every block and
\* the same texts, each with the same delta; reading it again gives the same data.
C27_DataRoundTrip ==
  LET data == GetDocumentData(doc)
      r == CreateWithData(data) IN
  /\ r.ok
  /\ r.doc = doc
  /\ GetDocumentData(r.doc) = data
\* apply_action left two children under the page and a text of a bold and a
\* plain character; the data holds its delta of two elements and is rebuilt.
C27_Witness ==
  /\ lastActions # <<>> /\ lastError = 0
  /\ doc.children[PageId] = <<"b2", "b1">>
  /\ doc.text["t1"].chars = <<[ch |-> "a", bold |-> TRUE], [ch |-> "a", bold |-> FALSE]>>
  /\ <<"t1", DeltaString(<<InsertedText(<<"a">>, TRUE), InsertedText(<<"a">>, FALSE)>>)>>
       \in GetDocumentData(doc).text_map
  /\ CreateWithData(GetDocumentData(doc)).doc.children[PageId] = <<"b2", "b1">>
  /\ CreateWithData(GetDocumentData(doc)).doc.text = doc.text
\* A text made by an InsertText whose delta is no JSON: it is empty, the data
\* holds its empty delta and the rebuilt document has the empty text.
C27_WitnessEmptyText ==
  /\ lastActions = <<InsertText("t1", BadDelta)>> /\ lastError = 0
  /\ doc.text["t1"] = EmptyText
  /\ CreateWithData(GetDocumentData(doc)).doc.text["t1"] = EmptyText
\* The block that had the text as its external_id was deleted and the text with
\* it: the data holds no delta and the rebuilt document no text.
C27_WitnessDeletedText ==
  /\ lastActions = <<Delete("b1")>> /\ lastError = 0
  /\ docBefore.ext["b1"] = "t1" /\ docBefore.text["t1"].chars # <<>>
  /\ doc.text["t1"] = NoText
  /\ GetDocumentData(doc).text_map = {}
  /\ CreateWithData(GetDocumentData(doc)).doc.text["t1"] = NoText

\* C26: an insert_cell leaves the cell with a created_at; it keeps the
\* created_at of a cell that has one and sets last_modified to a value greater
\* than the one the cell had.
C26_CellTimes ==
  [][\A f \in FieldIds :
       (writes' = writes + 1 /\ lastField' = f) =>
         /\ cells'[f].created_at # Absent
         /\ cells[f].created_at # Absent =>
              cells'[f].created_at = cells[f].created_at
         /\ cells[f].last_modified # Absent =>
              cells'[f].last_modified > cells[f].last_modified]_vars

\* A call of the given kind returned in this step.
Called(op) == lastCall'.op = op /\ undoVars' # undoVars /\ (upc' = upc \/ upc' = "idle")
\* C21: undo and redo on a session without undo manager fail with
\* UndoManagerNotEnabled and leave the content (and the empty stacks) as they are.
C21_UndoNotEnabled ==
  [][((Called("undo") \/ Called("redo")) /\ ~undoOn) =>
       /\ lastCall'.result = "UndoManagerNotEnabled"
       /\ UNCHANGED <<cmap, undoStack, redoStack, undoOn>>]_vars
\* undo was refused on a session that holds an insert and has no undo manager.
C21_Witness ==
  /\ lastCall = Call("undo", "UndoManagerNotEnabled")
  /\ ~undoOn
  /\ cmap["k1"] = "a"

\* Once every change made since enabling is undone, the content is the one the
\* session had when undo/redo was enabled: earlier changes are kept.
OnlyLaterChanges == (undoOn /\ undoStack = <<>>) => cmap = atEnable
\* A redo after an undo gives back the content and the stacks before the undo.
RedoRestores == CanUndo => RedoOp(UndoOp(Session)) = Session
\* What the call that returns in a step returned and changed; lockAware: a
\* Document call counts the mutex of the session, held by another thread, as
\* "not available". Document::undo and redo act on the stacks as they are when
\* they take the mutex for the operation.
UndoLaws(lockAware) ==
  LET free == lockAware => ~guardHeld IN
  /\ Called("insert") => redoStack' = <<>>
  /\ (Called("undo") /\ undoOn) =>
       IF undoStack # <<>>
       THEN /\ lastCall'.result = "true"
            /\ cmap' = [cmap EXCEPT ![Top(undoStack).key] = Top(undoStack).old]
            /\ undoStack' = Front(undoStack)
            /\ redoStack' # <<>>
       ELSE lastCall'.result = "false" /\ UNCHANGED <<cmap, undoStack, redoStack>>
  /\ (Called("redo") /\ undoOn) =>
       IF redoStack # <<>>
       THEN /\ lastCall'.result = "true"
            /\ cmap' = [cmap EXCEPT ![Top(redoStack).key] = Top(redoStack).new]
            /\ redoStack' = Front(redoStack)
       ELSE lastCall'.result = "false" /\ UNCHANGED <<cmap, undoStack, redoStack>>
  /\ Called("can_undo") =>
       /\ lastCall'.result = Bool(undoOn /\ undoStack # <<>>)
       /\ UNCHANGED <<cmap, undoStack, redoStack>>
  /\ Called("can_redo") =>
       /\ lastCall'.result = Bool(undoOn /\ redoStack # <<>>)
       /\ UNCHANGED <<cmap, undoStack, redoStack>>
  /\ Called("doc_can_undo") =>
       /\ lastCall'.result = Bool(undoStack # <<>> /\ free)
       /\ UNCHANGED <<cmap, undoStack, redoStack>>
  /\ Called("doc_can_redo") =>
       /\ lastCall'.result = Bool(redoStack # <<>> /\ free)
       /\ UNCHANGED <<cmap, undoStack, redoStack>>
  /\ Called("doc_undo") =>
       IF undoStack # <<>> /\ free
       THEN /\ lastCall'.result = "true"
            /\ cmap' = [cmap EXCEPT ![Top(undoStack).key] = Top(undoStack).old]
            /\ undoStack' = Front(undoStack)
            /\ redoStack' # <<>>
       ELSE lastCall'.result = "false" /\ UNCHANGED <<cmap, undoStack, redoStack>>
  /\ Called("doc_redo") =>
       IF redoStack # <<>> /\ free
       THEN /\ lastCall'.result = "true"
            /\ cmap' = [cmap EXCEPT ![Top(redoStack).key] = Top(redoStack).new]
            /\ redoStack' = Front(redoStack)
       ELSE lastCall'.result = "false" /\ UNCHANGED <<cmap, undoStack, redoStack>>

\* C22 as stated: undo reverts the changes made after enabling and no other,
\* can_undo is false once they are all undone, can_redo is true after an undo
\* until the next change, undo then redo restores the content, and can_undo /
\* can_redo change nothing; for the Collab and for the Document methods alike.
C22_Original ==
  /\ [](OnlyLaterChanges /\ RedoRestores)
  /\ [][UndoLaws(FALSE)]_vars
\* C22 amended: the same, where the Document methods report false and change
\* nothing while another thread holds the mutex of the session.
C22_UndoRedo ==
  /\ [](OnlyLaterChanges /\ RedoRestores)
  /\ [][UndoLaws(TRUE)]_vars
\* The change made after enabling is undone, the one made before is kept, and
\* Document::can_redo answers false because another thread holds the mutex.
C22_Witness ==
  /\ lastCall = Call("doc_can_redo", "false")
  /\ guardHeld
  /\ redoStack # <<>> /\ undoStack = <<>>
  /\ atEnable["k1"] = "a" /\ cmap = atEnable

\* A call of the given kind was made on the folder in this step.
FolderCalled(op) ==
  fop'.op = op /\ <<folder, workspaces, favoritesV1, fop>>' # <<folder, workspaces, favoritesV1, fop>>
\* C28: a move_nested_view(view, new_parent, prev) that is carried out takes
\* the view out of its old parent's children, puts it into new_parent's
\* children right after prev, or first when prev is None, sets the view's
\* parent and leaves every other parent and children list as it was.
C28_MoveNestedView ==
  [][\A viewId \in FolderIds, newParent \in FolderIds, prevId \in FolderIds \cup {None} :
       (FolderCalled("move") /\ fop' = FolderOp("move", viewId, newParent, prevId, "some")) =>
         LET old == folder.parent[viewId]
             base == IF old = newParent
                     THEN ListWithout(folder.children[newParent], viewId)
                     ELSE folder.children[newParent]
             k == IF \E i \in 1 .. Len(base) : base[i] = prevId
                  THEN CHOOSE i \in 1 .. Len(base) : base[i] = prevId
                  ELSE 0 IN
         (prevId = None \/ k > 0) =>
           /\ folder'.parent = [folder.parent EXCEPT ![viewId] = newParent]
           /\ folder'.children[newParent] =
                SubSeq(base, 1, k) \o <<viewId>> \o SubSeq(base, k + 1, Len(base))
           /\ (old \in FolderIds /\ old # newParent) =>
                folder'.children[old] = ListWithout(folder.children[old], viewId)
           /\ \A q \in FolderIds \ {old, newParent} :
                folder'.children[q] = folder.children[q]]_vars
\* The example: v1_1 was moved from v1 into w1 behind v1; w1 holds v1, v1_1, v2.
C28_Witness ==
  /\ fop = FolderOp("move", "v1_1", "w1", "v1", "some")
  /\ folder.children["w1"] = <<"v1", "v1_1", "v2">>
  /\ folder.children["v1"] = <<>>
  /\ folder.parent["v1_1"] = "w1"

\* C31: the sink publishes Finished only at a moment when the pending queue is
\* empty: a step that makes Finished the published state leaves no message, in
\* whatever state, in the queue, and it is the runner's completion step.
C31_FinishedOnlyWhenEmpty ==
  [][(sinkState' = "Finished" /\ sinkState # "Finished")
       => /\ queue' = {}
          /\ runnerPc = "await" /\ runnerPc' = "wait" /\ lock = "free"]_vars

\* C31 witness: two messages were queued and sent, the second ack emptied the
\* queue and Finished is the published state.
C31_Witness ==
  /\ sinkState = "Finished"
  /\ queue = {}
  /\ runnerPc = "wait"
  /\ \A i \in 0 .. 1 : sends[i] > 0

\* The messages of q that went into the payload sent, other than the head.
Absorbed(q, head, sent) == {m \in q \ {head} : m.ids \subseteq sent.ids}

\* C32 as stated: on every step of try_send_msg_immediately that sends a message: a head
\* that is not mergeable absorbs nothing; the payload sent is within
\* max_merge_size; what was absorbed are the messages that followed the head in
\* queue order, all mergeable and of the head's priority; and the first message
\* not absorbed, if any, is not mergeable or would have exceeded max_merge_size.
C32_MergeBounded ==
  [][(runnerPc = "trysend" /\ runnerPc' = "send") =>
       LET head == Peek(queue)
           sent == inflight'
           absorbed == Absorbed(queue, head, sent)
           others == (queue \ {head}) \ absorbed IN
       /\ sent.id = head.id
       /\ sent.ids = head.ids \cup UNION {m.ids : m \in absorbed}
       /\ ~Mergeable(head.kind) => absorbed = {}
       /\ Cardinality(sent.ids) <= maxMergeSize
       /\ \A m \in absorbed :
            /\ Mergeable(m.kind)
            /\ Priority(m.kind) = Priority(head.kind)
            /\ \A n \in others : Before(m, n)
       /\ (Mergeable(head.kind) /\ others # {}) =>
            LET stop == Peek(others) IN
            \/ ~Mergeable(stop.kind)
            \/ Cardinality(sent.ids \cup stop.ids) > maxMergeSize]_vars

\* C33: no update is lost across a snapshot: whatever was appended before and
\* after a compaction, a load (the snapshot, then the updates with a greater
\* clock) yields the state that the same appends make without compaction; an
\* update appended after the compaction has a clock greater than the snapshot's.
C33_NoUpdateLost ==
  \A obj \in Objects :
    /\ Load(kv, snapshot[obj], obj) = applied[obj]
    /\ snapshot[obj] # NoSnapshot =>
         \A e \in RecordsOf(kv, obj) : ClockFromKey(e.key) > snapshot[obj].clock

\* C34: delete_row on a row that exists (its document is live), cached or not,
\* leaves the row out of the cache and its document with the tombstone.
C34_DeleteRowAnyExisting ==
  [][(bcall' # bcall /\ bcall'.existed)
       => /\ ~InCache(cache', bcall'.row)
          /\ rows'[bcall'.row] = Deleted]_vars

\* A fetch task completes: the task the controller runs next is taken off the
\* queue. TaskRows: the rows the task was queued for.
FetchCompletes == tasks # <<>> /\ tasks' = Remove(tasks, NextTask(tasks))
TaskRows(task) == IF task.row = BatchTask THEN task.ids ELSE {task.row}

\* C35 as stated: a completion that brought a row which was not created
\* locally meanwhile puts that row into the cache.
C35_Original ==
  [][\A r \in RowIds :
       (FetchCompletes /\ r \in TaskRows(tasks[NextTask(tasks)])
          /\ rows[r] = NoRow /\ rows'[r] # NoRow)
         => InCache(cache', r)]_vars

\* C35: the completion of a fetch task leaves the cache and its order of use
\* as they are; a row that has a document by then (created locally) keeps it
\* unchanged, in the cache if it was there; a fetched row is only stored, and
\* a read that finds a document in the store puts the row into the cache.
C35_FetchCompletion ==
  [][/\ FetchCompletes =>
          /\ cache' = cache /\ used' = used
          /\ \A r \in RowIds : rows[r] # NoRow => rows'[r] = rows[r]
          /\ \A r \in RowIds : rows'[r] # rows[r] =>
                r \in TaskRows(tasks[NextTask(tasks)]) /\ rows'[r] = LiveRow(0)
     /\ \A t \in Threads : (bpc[t] = "load" /\ bpc'[t] = "read") =>
          /\ rows[barg[t]] # NoRow
          /\ cache' = LruPut(cache, barg[t])]_vars

\* C35 witness: a fetch was requested for r2, then r2 was created locally and
\* updated; the task has completed and r2 is cached with its local state.
C35_Witness ==
  /\ sequence = 1
  /\ tasks = <<>>
  /\ waiting["r2"] = 0
  /\ rows["r3"] = NoRow /\ ~InCache(cache, "r3")
  /\ lastRead \in {EmptyRow, NoCell}
  /\ InCache(cache, "r2")
  /\ rows["r2"] = LiveRow(1)

\* C36: no queued message is silently lost: a message whose payload is no
\* longer in the queue after a step was Done (acked), or the step was
\* remove_all_pending_msgs; a payload merged into the message sent stays queued
\* with that message.
C36_NoSilentLoss ==
  [][\A m \in queue :
       \/ m.ids \subseteq Covered(queue')
       \/ m.state = "Done"
       \/ queue' = {} /\ lock = "free" /\ lock' = "client"]_vars

\* C37: under the assumptions of delivery every queued message is eventually
\* sent (a message that is never merged into another goes out under its own
\* id), and a sink with a message queued eventually has an empty queue with
\* Finished as its published state.
C37_EverySentAndFinished ==
  /\ \A i \in MsgIds :
       (\E m \in queue : m.id = i /\ ~Mergeable(m.kind)) ~> (sends[i] > 0)
  /\ (queue # {}) ~> (queue = {} /\ sinkState = "Finished")

\* C38: when remove_all_pending_msgs cleared the message in flight, the
\* runner's handling of the end of its wait removes no other message from the
\* queue: every message queued since is still queued afterwards.
C38_ClearedCompletionKeepsNewer ==
  [][(runnerPc = "await" /\ runnerPc' = "wait" /\ ackChan = "closed")
       => \A m \in queue : m.id # inflight.id => \E n \in queue' : n.id = m.id]_vars

\* C39: callers that read a row which is stored but not cached share one
\* session: a caller that opens a session on the stored row and puts it into
\* the cache finds no session of that row there. (Otherwise two sessions were
\* made for the row, the put replaces the earlier one, and the caller that got
\* the earlier one holds a session that is not the cached one.)
C39_OneSessionPerRow ==
  [][\A t \in Threads :
       (bpc[t] = "load" /\ bpc'[t] = "read") => ~InCache(cache, barg[t])]_vars

\* The blocks whose children list holds id, and how often a list holds it.
Holders(d, id) == {p \in AllIds : \E i \in 1 .. Len(d.children[p]) : d.children[p][i] = id}
TimesIn(list, id) == Cardinality({i \in 1 .. Len(list) : list[i] = id})

\* Parent and children references of a document agree: a block is held once,
\* by the list of the block its parent field names (by none if it names none),
\* and the lists hold blocks of the block map only.
RefsAgree(d) ==
  /\ \A id \in AllIds : Exists(d, id) =>
        /\ Holders(d, id) = IF d.parent[id] = NoParent THEN {} ELSE {d.parent[id]}
        /\ \A p \in Holders(d, id) : TimesIn(d.children[p], id) = 1
  /\ \A p \in AllIds : \A i \in 1 .. Len(d.children[p]) : Exists(d, d.children[p][i])

\* C40: a call of apply_action whose actions all succeed takes a document whose
\* parent and children references agree to one whose references agree; the
\* new document holds the page block only. So they agree after every sequence
\* of successful insert, move and delete actions.
C40_RefsAgree ==
  /\ RefsAgree(DocInit)
  /\ [][(lastActions = <<>> /\ lastActions' # <<>> /\ lastError' = 0 /\ RefsAgree(doc))
         => RefsAgree(doc')]_vars

\* C40 witness: a block was moved under another and a block deleted, both with
\* success, in a document with two blocks below the page; the references agree.
C40_Witness ==
  /\ Len(lastActions) = 2
  /\ lastError = 0
  /\ lastActions[1].action = "Move"
  /\ lastActions[2].action = "Delete"
  /\ docBefore.children[PageId] = <<"b2", "b1">>
  /\ doc # docBefore
  /\ RefsAgree(docBefore)
  /\ RefsAgree(doc)

====
